---- MODULE Spec2Model ----
(***************************************************************************)
(* Carbon-aware workload scheduling: the five scheduling strategies of     *)
(* backend/algorithms (fcfs, round_robin, random, greedy, dp), the         *)
(* Datacenter capacity ledger and the Schedule they return.                *)
(*                                                                         *)
(* Units.  cpu, memory and intensities are integers.  All times and        *)
(* durations are counted in half hours, so a duration of 3 is 1.5 h and    *)
(* time slot t of the forecast starts at 2*t.  energy_kwh is counted in    *)
(* 1/20 kWh (cpu * 0.1 kW * duration h = cpu * duration / 20), and         *)
(* carbon_emissions in 1/20 gCO2 accordingly.                              *)
(***************************************************************************)
EXTENDS Integers, Sequences, FiniteSets, TLC

\* ------------------------------------------------------------------ bounds
\* Largest batch of workloads handed to a strategy.
MaxWorkloads == 2
\* time_slots handed to dp_schedule (the horizon of the forecast, in hours).
TimeSlots == 2

VARIABLES
    workloads,          \* the caller's batch: a sequence of Workload records
    datacenters,        \* the caller's Datacenter objects, in list order
    carbon_data,        \* the instantaneous carbon map: dc id -> entry
    carbon_forecast,    \* the forecast handed to dp_schedule: <<dc id, slot>> -> entry
    base_time,          \* datetime.utcnow() as read by dp_schedule
    running,            \* the strategy being executed, "none" between calls
    sorted_workloads,   \* the strategy's processing order
    i,                  \* 1-based position of the next workload to process
    dcs,                \* the run's own copies of the datacenters (its ledger)
    assignments,        \* the assignments made so far by the run
    dc_index,           \* round_robin_schedule's cursor
    dp,                 \* dp_schedule's table for the tasks processed so far
    schedule,           \* the Schedule returned by the strategy under test
    baseline,           \* the Schedule returned by the fcfs run that follows it
    fits_everywhere,    \* history: every workload processed so far by the run
                        \* could be accommodated by every datacenter of the ledger
    catalog,            \* OptimizerService.datacenters (DEFAULT_DATACENTERS)
    request,            \* the arguments of the optimize call in progress
    phase,              \* where the optimize call stands; "direct" when the
                        \* strategies are called without the service
    datacenters_used,   \* ids of the datacenters optimize handed to the strategy
    result,             \* what optimize returned
    compare,            \* the frame of a compare_algorithms call
    datacenter,         \* one Datacenter object driven through its methods
    last_call,          \* the last method called on it, with what it returned
    compare_request,    \* the arguments of the compare_algorithms call
    comparison,         \* compare_algorithms' forecast and results, and how
                        \* the call ended
    provider,           \* what the carbon intensity provider may answer
    constructed,        \* the arguments Workload(...) is called with, then
                        \* what the construction left
    serialized,         \* what Schedule.to_dict returned for schedule
    client,             \* the CarbonAPIClient: its two cache dictionaries, and
                        \* the clock they are stamped with
    threads             \* the threads calling the client: where each stands in
                        \* its call, its locals and what its call returned

\* The state of the optimizer service and of its calls.
service_vars == <<catalog, request, phase, datacenters_used, result, compare>>

\* The objects driven on their own: a Datacenter, the construction of a
\* Workload, the serialization of a Schedule.
object_vars == <<datacenter, last_call, constructed, serialized, client, threads>>

\* What compare_algorithms is asked and what it has answered.
compare_vars == <<compare_request, comparison>>

vars == <<workloads, datacenters, carbon_data, carbon_forecast, base_time, running,
          sorted_workloads, i, dcs, assignments, dc_index, dp, schedule,
          baseline, fits_everywhere, service_vars, object_vars, compare_vars, provider>>

\* ------------------------------------------------------------- small helpers
Min(S) == CHOOSE x \in S : \A y \in S : x <= y

Range(s) == {s[k] : k \in 1..Len(s)}

RECURSIVE SumSeq(_)
SumSeq(s) == IF s = <<>> THEN 0 ELSE Head(s) + SumSeq(Tail(s))

\* Keys are pairs compared as Python compares tuples.
KeyLessEq(a, b) == a[1] < b[1] \/ (a[1] = b[1] /\ a[2] <= b[2])

\* sorted(...) is stable: an element goes after every element already placed
\* whose key is not greater than its own.  order is a sequence of positions of
\* keys, sorted; p is the position to insert.
RECURSIVE InsertSorted(_, _, _)
InsertSorted(order, p, keys) ==
    IF order = <<>> THEN <<p>>
    ELSE IF KeyLessEq(keys[Head(order)], keys[p])
         THEN <<Head(order)>> \o InsertSorted(Tail(order), p, keys)
         ELSE <<p>> \o order

RECURSIVE SortedOrder(_, _)
SortedOrder(keys, n) ==
    IF n = 0 THEN <<>> ELSE InsertSorted(SortedOrder(keys, n - 1), n, keys)

\* sorted(s, key=...) where keys[k] is the key of s[k].
StableSort(s, keys) ==
    LET order == SortedOrder(keys, Len(s)) IN [k \in 1..Len(s) |-> s[order[k]]]

\* ------------------------------------------------------------------ Workload
\* energy_kwh = cpu * 0.1 * duration, here in 1/20 kWh.
EnergyKwh(w) == w.cpu * w.duration

\* The batches are drawn from these validated workloads (cpu, memory in
\* (0, 64] x (0, 256], duration in (0, 168] h, priority in 1..10).
WorkloadKinds ==
    { [cpu |-> 1, memory |-> 1, duration |-> 2, priority |-> 5, arrival_time |-> 0, deadline |-> 48],
      [cpu |-> 2, memory |-> 1, duration |-> 4, priority |-> 5, arrival_time |-> 0, deadline |-> 48],
      [cpu |-> 1, memory |-> 3, duration |-> 3, priority |-> 7, arrival_time |-> 1, deadline |-> 49],
      [cpu |-> 1, memory |-> 1, duration |-> 2, priority |-> 9, arrival_time |-> 1, deadline |-> 3],
      [cpu |-> 4, memory |-> 2, duration |-> 2, priority |-> 3, arrival_time |-> 0, deadline |-> 48] }

\* A Workload of the batch: the kind's fields plus its unique id (here its
\* position in the caller's list).
Workload(kind, id) ==
    [id |-> id, cpu |-> kind.cpu, memory |-> kind.memory, duration |-> kind.duration,
     priority |-> kind.priority, arrival_time |-> kind.arrival_time,
     deadline |-> kind.deadline]

\* ------------------------------------------------- constructing a Workload
\* A float handed to the constructor: a number, or nan, with which every
\* comparison is false.
Float(v) == [nan |-> FALSE, value |-> v]
NaN == [nan |-> TRUE, value |-> 0]

\* a <= b, a > b and a < b as Python evaluates them on floats.
FloatLe(a, b) == ~a.nan /\ ~b.nan /\ a.value <= b.value
FloatGt(a, b) == ~a.nan /\ ~b.nan /\ a.value > b.value
FloatLt(a, b) == ~a.nan /\ ~b.nan /\ a.value < b.value

\* An optional datetime argument: None or a time.
None == [given |-> FALSE, time |-> 0]
Some(t) == [given |-> TRUE, time |-> t]

\* The arguments of Workload(cpu, memory, duration, priority, deadline,
\* arrival_time); duration in half-hours.
WorkloadArgs(cpu, memory, duration, priority, deadline, arrival_time) ==
    [cpu |-> cpu, memory |-> memory, duration |-> duration, priority |-> priority,
     deadline |-> deadline, arrival_time |-> arrival_time]

\* Workload.__post_init__ on the fields the dataclass has just stored: the
\* four checks in order, each raising ValueError, then the defaults:
\* arrival_time is the clock's reading, deadline 24 h after arrival_time.
\* An exception leaves the fields as they were given and no object.
PostInit(args, now) ==
    LET field == IF FloatLe(args.cpu, Float(0)) \/ FloatGt(args.cpu, Float(64))
                 THEN "cpu"
                 ELSE IF FloatLe(args.memory, Float(0)) \/ FloatGt(args.memory, Float(256))
                 THEN "memory"
                 ELSE IF FloatLe(args.duration, Float(0))
                         \/ FloatGt(args.duration, Float(2 * 168))
                 THEN "duration"
                 ELSE IF FloatLt(args.priority, Float(1))
                         \/ FloatGt(args.priority, Float(10))
                 THEN "priority"
                 ELSE "none"
        arrival_time == IF args.arrival_time.given THEN args.arrival_time ELSE Some(now)
        deadline == IF args.deadline.given THEN args.deadline
                    ELSE Some(arrival_time.time + 48)
    IN  IF field # "none"
        THEN [outcome |-> "ValueError", field |-> field, args |-> args, object |-> args]
        ELSE [outcome |-> "constructed", field |-> "none", args |-> args,
              object |-> [args EXCEPT !.arrival_time = arrival_time,
                                      !.deadline = deadline]]

\* The constructor called with args, __post_init__ not yet run.
Construction(args) == [outcome |-> "called", field |-> "none", args |-> args, object |-> args]

\* No construction under way.
NoConstruction ==
    [outcome |-> "none", field |-> "none",
     args |-> WorkloadArgs(Float(0), Float(0), Float(0), Float(0), None, None),
     object |-> WorkloadArgs(Float(0), Float(0), Float(0), Float(0), None, None)]

\* Nothing serialized.
NoDict == [assignments |-> <<>>, algorithm_used |-> "none",
           summary |-> [total_carbon |-> 0, total_cost |-> 0, tasks_scheduled |-> 0]]

\* The values the constructor is tried with: around each bound, and nan.
CpuValues == {Float(-1), Float(0), Float(1), Float(64), Float(65), NaN}
MemoryValues == {Float(0), Float(1), Float(256), Float(257), NaN}
DurationValues == {Float(0), Float(1), Float(2 * 168), Float(2 * 168 + 1), NaN}
PriorityValues == {Float(0), Float(1), Float(10), Float(11), NaN}

\* ---------------------------------------------------------------- Datacenter
\* Datacenter.__post_init__: available capacity starts at the totals.
Datacenter(id, total_cpu, total_memory, cost_per_core_hour) ==
    [id |-> id, total_cpu |-> total_cpu, total_memory |-> total_memory,
     cost_per_core_hour |-> cost_per_core_hour,
     available_cpu |-> total_cpu, available_memory |-> total_memory]

\* CanAccommodate looking at memory only.
CanAccommodateMemoryOnly(dc, cpu, memory) == dc.available_memory >= memory

\* Datacenter.can_accommodate
CanAccommodate(dc, cpu, memory) ==
    dc.available_cpu >= cpu /\ dc.available_memory >= memory

\* Allocate taking each resource that suffices on its own.
AllocateEachThatSuffices(dc, cpu, memory) ==
    [dc EXCEPT !.available_cpu = IF @ >= cpu THEN @ - cpu ELSE @,
               !.available_memory = IF @ >= memory THEN @ - memory ELSE @]

\* The Datacenter after allocate(cpu, memory).
Allocate(dc, cpu, memory) ==
    IF ~CanAccommodate(dc, cpu, memory) THEN dc
    ELSE [dc EXCEPT !.available_cpu = @ - cpu, !.available_memory = @ - memory]

\* What allocate(cpu, memory) returns.
AllocateReturns(dc, cpu, memory) == CanAccommodate(dc, cpu, memory)

\* Release without the cap at the totals.
ReleaseUncapped(dc, cpu, memory) ==
    [dc EXCEPT !.available_cpu = @ + cpu, !.available_memory = @ + memory]

\* The Datacenter after release(cpu, memory).
Release(dc, cpu, memory) ==
    [dc EXCEPT !.available_cpu = IF dc.total_cpu <= @ + cpu THEN dc.total_cpu ELSE @ + cpu,
               !.available_memory = IF dc.total_memory <= @ + memory THEN dc.total_memory
                                    ELSE @ + memory]

\* The Datacenter after reset_capacity().
ResetCapacity(dc) ==
    [dc EXCEPT !.available_cpu = dc.total_cpu, !.available_memory = dc.total_memory]

\* The datacenter lists the strategies are run on (list order matters).
DatacenterFixtures ==
    { <<>>,
      << Datacenter("DC-Low", 2, 4, 45) >>,
      << Datacenter("DC-Low", 3, 4, 45), Datacenter("DC-High", 3, 2, 55) >>,
      << Datacenter("DC-High", 2, 4, 55), Datacenter("DC-Low", 2, 4, 45) >>,
      << Datacenter("DC-Low", 3, 2, 45), Datacenter("DC-Medium", 2, 4, 48),
         Datacenter("DC-High", 3, 4, 55) >> }

\* ------------------------------------------------------------- carbon signal
CarbonEntry(intensity, renewable) == [intensity |-> intensity, renewable |-> renewable]

\* A carbon map without entries.
NoCarbon == [id \in {} |-> CarbonEntry(0, 0)]

\* carbon_data.get(dc.id, {'intensity': 200, 'renewable': 30})
DefaultCarbon == CarbonEntry(200, 30)

\* CarbonGet answering a missing key with the sentinel greedy sorts by.
CarbonGetSentinel(carbon, key) ==
    IF key \in DOMAIN carbon THEN carbon[key] ELSE CarbonEntry(999, 0)

CarbonGet(carbon, key) == IF key \in DOMAIN carbon THEN carbon[key] ELSE DefaultCarbon

\* The carbon maps the strategies are run with: the test fixture's map, a map
\* in which every datacenter has the same intensity, a map that lacks the
\* entry of DC-Low (its other intensities above the recorded default of 200),
\* a map whose only entry is DC-High at the intensity of a lignite plant, and
\* the empty map.
CarbonMaps ==
    { [id \in {"DC-Low", "DC-Medium", "DC-High"} |->
          CASE id = "DC-Low" -> CarbonEntry(100, 80)
            [] id = "DC-Medium" -> CarbonEntry(200, 45)
            [] OTHER -> CarbonEntry(300, 25)],
      [id \in {"DC-Low", "DC-Medium", "DC-High"} |-> CarbonEntry(200, 45)],
      [id \in {"DC-Medium", "DC-High"} |->
          IF id = "DC-Medium" THEN CarbonEntry(250, 45) ELSE CarbonEntry(300, 25)],
      [id \in {"DC-High"} |-> CarbonEntry(1200, 5)],
      NoCarbon }

\* Time slots of the forecast: range(T).
Slots == 0..(TimeSlots - 1)

\* An intensity that falls by 100 per slot from 300 down to 100.
Falling(t) == IF t >= 2 THEN 100 ELSE 300 - 100 * t

\* The datacenter ids the forecasts have entries for: those of the test
\* fixtures and those of the service's catalog.
ForecastIds == {"DC-Low", "DC-Medium", "DC-High",
                "UK-North", "UK-South", "UK-Midlands", "UK-Scotland"}

\* The forecasts dp_schedule is run with, keyed by <<dc id, slot>>: intensities
\* falling over time, intensities constant over time, a forecast with entries
\* for DC-High and UK-South only (and there rising), and the empty forecast.
Forecasts ==
    { [p \in ForecastIds \X Slots |->
          CASE p[1] \in {"DC-Low", "UK-Scotland"} -> CarbonEntry(Falling(p[2]), 80)
            [] p[1] \in {"DC-Medium", "UK-North"} -> CarbonEntry(Falling(p[2]) + 50, 45)
            [] OTHER -> CarbonEntry(Falling(p[2]) + 100, 25)],
      [p \in ForecastIds \X Slots |->
          CASE p[1] \in {"DC-Low", "UK-Scotland"} -> CarbonEntry(100, 80)
            [] p[1] \in {"DC-Medium", "UK-North"} -> CarbonEntry(200, 45)
            [] OTHER -> CarbonEntry(300, 25)],
      [p \in {"DC-High", "UK-South"} \X Slots |-> CarbonEntry(100 + 150 * p[2], 25)],
      [p \in {} |-> CarbonEntry(0, 0)] }

\* The values datetime.utcnow() takes when dp_schedule reads it, on the time
\* axis of the workloads' arrival times and deadlines.
BaseTimes == {0, 1}

\* ------------------------------------------------------ Assignment, Schedule
\* Assignment taking the workload's power (cpu * 0.1) for its energy.
AssignmentWithoutDuration(w, dc, start, carbon) ==
    [workload_id |-> w.id,
     datacenter_id |-> dc.id,
     start_time |-> start,
     end_time |-> start + w.duration,
     carbon_emissions |-> w.cpu * carbon.intensity,
     cost |-> w.cpu * w.duration * dc.cost_per_core_hour,
     carbon_intensity |-> carbon.intensity,
     renewable_percentage |-> carbon.renewable]

Assignment(w, dc, start, carbon) ==
    [workload_id |-> w.id,
     datacenter_id |-> dc.id,
     start_time |-> start,
     end_time |-> start + w.duration,
     carbon_emissions |-> EnergyKwh(w) * carbon.intensity,
     cost |-> w.cpu * w.duration * dc.cost_per_core_hour,
     carbon_intensity |-> carbon.intensity,
     renewable_percentage |-> carbon.renewable]

Schedule(asgs, algorithm_used) == [assignments |-> asgs, algorithm_used |-> algorithm_used]

NoSchedule == [assignments |-> <<>>, algorithm_used |-> "none"]

TotalCarbon(s) == SumSeq([k \in 1..Len(s.assignments) |-> s.assignments[k].carbon_emissions])

TotalCost(s) == SumSeq([k \in 1..Len(s.assignments) |-> s.assignments[k].cost])

\* round(x, 2) of a carbon total: totals are counted in 1/20 gCO2, which two
\* decimals hold exactly; the rounded value is counted in 1/100 gCO2.
Round2(twentieths) == 5 * twentieths

\* --------------------------------------------------------- MetricsCalculator
\* a / b of two numbers raises ZeroDivisionError exactly when b is 0.
DivisionRaises(b) == b = 0

\* round(a / b) for a divisor above 0, to the nearest unit of the result.
RoundDiv(a, b) == (2 * a + b) \div (2 * b)

\* What a calculator leaves behind when an exception leaves it.
MetricsRaised == [raised |-> TRUE]

\* calculate_carbon_metrics(optimized, baseline): the totals in 1/100 gCO2,
\* percent_reduction in tenths of a percent.  The divisions by base_carbon
\* and by len(optimized.assignments) are evaluated only under their
\* conditions; the equivalents divide by literals and are left out.
CalculateCarbonMetrics(optimized, base) ==
    LET opt_carbon == TotalCarbon(optimized)
        base_carbon == TotalCarbon(base)
        carbon_saved == base_carbon - opt_carbon
        by_base == base_carbon > 0
        by_len == optimized.assignments # <<>>
    IN  IF \/ by_base /\ DivisionRaises(base_carbon)
           \/ by_len /\ DivisionRaises(Len(optimized.assignments))
        THEN MetricsRaised
        ELSE [raised |-> FALSE,
              total_carbon_optimized |-> Round2(opt_carbon),
              total_carbon_baseline |-> Round2(base_carbon),
              carbon_saved |-> Round2(carbon_saved),
              percent_reduction |->
                  IF by_base THEN RoundDiv(carbon_saved * 1000, base_carbon) ELSE 0,
              carbon_per_task |->
                  IF by_len THEN RoundDiv(Round2(opt_carbon), Len(optimized.assignments))
                  ELSE 0]

\* calculate_cost_metrics with cost_per_carbon under the condition of
\* cost_per_task.
CalculateCostMetricsPerTaskGuard(s) ==
    LET total_cost == TotalCost(s)
        num_tasks == Len(s.assignments)
        by_tasks == num_tasks > 0
        by_carbon == num_tasks > 0
    IN  IF \/ by_tasks /\ DivisionRaises(num_tasks)
           \/ by_carbon /\ DivisionRaises(TotalCarbon(s))
        THEN MetricsRaised
        ELSE [raised |-> FALSE,
              total_cost |-> total_cost,
              cost_per_task |-> IF by_tasks THEN RoundDiv(total_cost, num_tasks) ELSE 0,
              cost_per_carbon |->
                  IF by_carbon THEN RoundDiv(total_cost * 100, TotalCarbon(s)) ELSE 0]

\* calculate_cost_metrics(schedule): cost_per_task under num_tasks > 0,
\* cost_per_carbon under schedule.total_carbon > 0.
CalculateCostMetrics(s) ==
    LET total_cost == TotalCost(s)
        num_tasks == Len(s.assignments)
        by_tasks == num_tasks > 0
        by_carbon == TotalCarbon(s) > 0
    IN  IF \/ by_tasks /\ DivisionRaises(num_tasks)
           \/ by_carbon /\ DivisionRaises(TotalCarbon(s))
        THEN MetricsRaised
        ELSE [raised |-> FALSE,
              total_cost |-> total_cost,
              cost_per_task |-> IF by_tasks THEN RoundDiv(total_cost, num_tasks) ELSE 0,
              cost_per_carbon |->
                  IF by_carbon THEN RoundDiv(total_cost * 100, TotalCarbon(s)) ELSE 0]

\* calculate_renewable_metrics(schedule): zeros for a schedule without
\* assignments, else the mean (np.mean of a list that is not empty) and the
\* share of tasks on datacenters above 50 % renewable, in tenths.
CalculateRenewableMetrics(s) ==
    LET n == Len(s.assignments)
        renewable_values == [k \in 1..n |-> s.assignments[k].renewable_percentage]
        green_tasks == Cardinality({k \in 1..n : renewable_values[k] > 50})
    IN  IF s.assignments = <<>>
        THEN [raised |-> FALSE, avg_renewable |-> 0, tasks_on_green_dc |-> 0,
              green_percentage |-> 0]
        ELSE IF DivisionRaises(n)
        THEN MetricsRaised
        ELSE [raised |-> FALSE,
              avg_renewable |-> RoundDiv(10 * SumSeq(renewable_values), n),
              tasks_on_green_dc |-> green_tasks,
              green_percentage |-> RoundDiv(1000 * green_tasks, n)]

\* calculate_performance_metrics(schedule): avg_duration in 1/100 h.
CalculatePerformanceMetrics(s) ==
    LET n == Len(s.assignments)
        durations == [k \in 1..n |-> s.assignments[k].end_time - s.assignments[k].start_time]
    IN  IF s.assignments = <<>>
        THEN [raised |-> FALSE, tasks_scheduled |-> 0, avg_duration |-> 0]
        ELSE IF DivisionRaises(n)
        THEN MetricsRaised
        ELSE [raised |-> FALSE,
              tasks_scheduled |-> n,
              avg_duration |-> RoundDiv(50 * SumSeq(durations), n)]

\* calculate_datacenter_distribution(schedule): per datacenter id the number
\* of assignments and their carbon.
CalculateDatacenterDistribution(s) ==
    LET n == Len(s.assignments)
        on(id) == {k \in 1..n : s.assignments[k].datacenter_id = id}
    IN  [id \in {s.assignments[k].datacenter_id : k \in 1..n} |->
            [count |-> Cardinality(on(id)),
             total_carbon |->
                 Round2(SumSeq([k \in 1..n |->
                     IF k \in on(id) THEN s.assignments[k].carbon_emissions ELSE 0]))]]

\* calculate_all_metrics(optimized, baseline): an exception leaving one of
\* the calculators leaves the call.
CalculateAllMetrics(optimized, base) ==
    LET carbon == CalculateCarbonMetrics(optimized, base)
        cost == CalculateCostMetrics(optimized)
        renewable == CalculateRenewableMetrics(optimized)
        performance == CalculatePerformanceMetrics(optimized)
    IN  IF carbon.raised \/ cost.raised \/ renewable.raised \/ performance.raised
        THEN MetricsRaised
        ELSE [raised |-> FALSE, carbon |-> carbon, cost |-> cost,
              renewable |-> renewable, performance |-> performance,
              distribution |-> CalculateDatacenterDistribution(optimized)]

\* No metrics calculated.
NoMetrics == [raised |-> FALSE, carbon |-> "none"]

\* ------------------------------------------------------------ serialization
\* round(x, 2) of an amount counted in thousandths (of a gram, of a dollar):
\* the nearest count of hundredths.
RoundToHundredths(thousandths) == RoundDiv(thousandths, 10)

\* Assignment.to_dict() of an assignment whose carbon_emissions and cost are
\* counted in thousandths: each of the two is rounded to 2 decimals.
AssignmentToDict(a) ==
    [workload_id |-> a.workload_id,
     datacenter_id |-> a.datacenter_id,
     start_time |-> a.start_time,
     end_time |-> a.end_time,
     carbon_emissions |-> RoundToHundredths(a.carbon_emissions),
     cost |-> RoundToHundredths(a.cost),
     carbon_intensity |-> a.carbon_intensity,
     renewable_percentage |-> a.renewable_percentage]

\* Schedule.to_dict(): the assignments serialized one by one, and a summary
\* whose totals are the sums of the unrounded amounts, rounded once.
ScheduleToDict(s) ==
    [assignments |-> [k \in 1..Len(s.assignments) |-> AssignmentToDict(s.assignments[k])],
     algorithm_used |-> s.algorithm_used,
     summary |-> [total_carbon |-> RoundToHundredths(TotalCarbon(s)),
                  total_cost |-> RoundToHundredths(TotalCost(s)),
                  tasks_scheduled |-> Len(s.assignments)]]

\* --------------------------------------------------------- OptimizerService
\* DEFAULT_DATACENTERS, the catalog of the service: four of its datacenters,
\* their capacities scaled down so that a batch of MaxWorkloads can exhaust one.
DEFAULT_DATACENTERS ==
    << Datacenter("UK-North", 2, 4, 45), Datacenter("UK-South", 3, 2, 55),
       Datacenter("UK-Midlands", 2, 2, 48), Datacenter("UK-Scotland", 3, 4, 42) >>

\* OptimizerService.ALGORITHMS: name -> strategy function.
ALGORITHMS == [name \in {"greedy", "dp", "fcfs"} |-> name]

\* algo_func = self.ALGORITHMS.get(algorithm, greedy_schedule)
AlgoFunc(algorithm) ==
    IF algorithm \in DOMAIN ALGORITHMS THEN ALGORITHMS[algorithm] ELSE "greedy"

\* The algorithm names optimize is called with: the names of the five
\* strategies and a name of no strategy.
AlgorithmNames == {"greedy", "dp", "fcfs", "round_robin", "random", "annealing"}

\* The datacenter_ids optimize is called with: None, the empty list, a list
\* of catalog ids, a list mixing a catalog id with an unknown one, and a list
\* of unknown ids only.
NoIds == [given |-> FALSE, ids |-> <<>>]
DatacenterIdLists ==
    { NoIds,
      [given |-> TRUE, ids |-> <<>>],
      [given |-> TRUE, ids |-> <<"UK-South", "UK-North">>],
      [given |-> TRUE, ids |-> <<"UK-Scotland", "UK-Mars">>],
      [given |-> TRUE, ids |-> <<"UK-Mars">>] }

\* CarbonAPIClient.MIN_CARBON_THRESHOLD
MIN_CARBON_THRESHOLD == 50

\* _get_default_carbon_data(), for the datacenters of the catalog.
DefaultCarbonData ==
    [id \in {"UK-North", "UK-South", "UK-Midlands", "UK-Scotland"} |->
        CASE id = "UK-Scotland" -> CarbonEntry(85, 80)
          [] id = "UK-North" -> CarbonEntry(145, 55)
          [] id = "UK-Midlands" -> CarbonEntry(180, 45)
          [] OTHER -> CarbonEntry(230, 35)]

\* What the regional endpoint may answer, after the regions are mapped to
\* datacenter ids (the `result` dict): the request failing, no region mapped
\* to a datacenter, two datacenters only, all four with one below the
\* threshold, all four with three below it, and all four above it.
NoFetch == [ok |-> FALSE, result |-> NoCarbon]
Fetches ==
    { NoFetch,
      [ok |-> TRUE, result |-> NoCarbon],
      [ok |-> TRUE, result |-> [id \in {"UK-North", "UK-South"} |->
            IF id = "UK-North" THEN CarbonEntry(120, 55) ELSE CarbonEntry(260, 35)]],
      [ok |-> TRUE, result |-> [id \in {"UK-North", "UK-South", "UK-Midlands", "UK-Scotland"} |->
            CASE id = "UK-Scotland" -> CarbonEntry(20, 90)
              [] id = "UK-North" -> CarbonEntry(120, 55)
              [] id = "UK-Midlands" -> CarbonEntry(180, 45)
              [] OTHER -> CarbonEntry(260, 35)]],
      [ok |-> TRUE, result |-> [id \in {"UK-North", "UK-South", "UK-Midlands", "UK-Scotland"} |->
            CASE id = "UK-South" -> CarbonEntry(260, 35)
              [] OTHER -> CarbonEntry(30, 85)]],
      [ok |-> TRUE, result |-> [id \in {"UK-North", "UK-South", "UK-Midlands", "UK-Scotland"} |->
            CASE id = "UK-Scotland" -> CarbonEntry(90, 80)
              [] id = "UK-North" -> CarbonEntry(260, 55)
              [] id = "UK-Midlands" -> CarbonEntry(180, 45)
              [] OTHER -> CarbonEntry(120, 35)]] }

\* get_current_intensity() without the floor on the datacenters kept when
\* fewer than 3 would remain.
GetCurrentIntensityUnfloored(fetch) ==
    IF ~fetch.ok THEN DefaultCarbonData
    ELSE LET fetched == fetch.result
             kept == {id \in DOMAIN fetched : fetched[id].intensity >= MIN_CARBON_THRESHOLD}
         IN  IF Cardinality(kept) < 3
             THEN fetched
             ELSE [id \in kept |-> fetched[id]]

\* get_current_intensity(): datacenters below the threshold are left out,
\* unless fewer than 3 would remain, when all are kept with the threshold as
\* a floor; the defaults when the request fails.
GetCurrentIntensity(fetch) ==
    IF ~fetch.ok THEN DefaultCarbonData
    ELSE LET fetched == fetch.result
             kept == {id \in DOMAIN fetched : fetched[id].intensity >= MIN_CARBON_THRESHOLD}
         IN  IF Cardinality(kept) < 3
             THEN [id \in DOMAIN fetched |->
                      IF fetched[id].intensity < MIN_CARBON_THRESHOLD
                      THEN CarbonEntry(MIN_CARBON_THRESHOLD, fetched[id].renewable)
                      ELSE fetched[id]]
             ELSE [id \in kept |-> fetched[id]]

\* What the national intensity endpoint may answer to get_forecast: a body
\* of the documented shape with its half-hourly national intensities (here
\* two periods, one period, none), a failure of the request itself (network
\* error, timeout, HTTP error status: a requests.RequestException), and a
\* body that decodes but has another shape (e.g. {"data": [{"intensity":
\* null}]}, on which the parsing raises AttributeError or TypeError).
ForecastAnswers ==
    { [kind |-> "ok", national |-> <<150, 90>>],
      [kind |-> "ok", national |-> <<40>>],
      [kind |-> "ok", national |-> <<>>],
      [kind |-> "request_error", national |-> <<>>],
      [kind |-> "malformed", national |-> <<>>] }

\* get_forecast has `except requests.RequestException` only: any other
\* exception of its try block leaves the method.
GetForecastRaises(answer) == answer.kind = "malformed"

\* max(a, b)
Max(a, b) == IF a >= b THEN a ELSE b

\* _get_default_forecast(hours): the defaults varied by (hour % 8 - 4) * 10,
\* not below the threshold.
GetDefaultForecast(hours) ==
    [p \in (DOMAIN DefaultCarbonData) \X (0..(hours - 1)) |->
        CarbonEntry(Max(MIN_CARBON_THRESHOLD,
                        DefaultCarbonData[p[1]].intensity + ((p[2] % 8) - 4) * 10),
                    DefaultCarbonData[p[1]].renewable)]

RECURSIVE SumIntensity(_, _)
\* sum(d.get('intensity', 200) for d in current.values()), over the ids given.
SumIntensity(current, ids) ==
    IF ids = {} THEN 0
    ELSE LET id == CHOOSE x \in ids : TRUE
         IN  current[id].intensity + SumIntensity(current, ids \ {id})

\* The map get_forecast(hours) returns when it returns: for each of the first
\* `hours` periods answered and each datacenter of the current snapshot, the
\* national intensity scaled by the datacenter's share of the snapshot's
\* average (national * current / avg, here rounded down to a whole number),
\* not below the threshold; the default forecast when the request failed.
GetForecast(answer, current, hours) ==
    IF answer.kind = "request_error" THEN GetDefaultForecast(hours)
    ELSE LET n == Cardinality(DOMAIN current)
             total == SumIntensity(current, DOMAIN current)
             periods == 0..(Min({Len(answer.national), hours}) - 1)
         IN  [p \in (DOMAIN current) \X periods |->
                 CarbonEntry(
                     Max(IF total > 0
                         THEN (answer.national[p[2] + 1] * current[p[1]].intensity * n) \div total
                         ELSE answer.national[p[2] + 1],
                         MIN_CARBON_THRESHOLD),
                     current[p[1]].renewable)]

\* The provider: what its regional endpoint and its national endpoint may
\* answer to a request.
Provider(regional, national) == [regional |-> regional, national |-> national]

\* get_forecast calls get_current_intensity() itself.  The call is served
\* from the cache when the snapshot fetched just before was stored there and
\* is not empty (`if cached:`); defaults are not stored, so after a failed
\* fetch, or an empty one, the regional endpoint is asked again.
SecondFetches(fetch) ==
    IF fetch.ok /\ GetCurrentIntensity(fetch) # NoCarbon THEN {fetch} ELSE provider.regional

\* The maps get_forecast(hours) may return after get_current_intensity got
\* this fetch, when the national endpoint answers this.
ForecastsReturned(answer, fetch, hours) ==
    {GetForecast(answer, GetCurrentIntensity(again), hours) : again \in SecondFetches(fetch)}

\* ------------------------------------------------- CarbonAPIClient's cache
\* cache_ttl (30 minutes) and the bound of the clock, in units of 10 minutes.
CacheTtl == 3
MaxClock == 4

\* CarbonAPIClient.__init__: both dictionaries empty.
NewClient == [cache |-> <<>>, timestamps |-> <<>>, clock |-> 0]

\* What a call returned: a map, by way of the cache or not; the exception
\* that left it; nothing yet.
CallReturned(op, kind, value, from_cache) ==
    [op |-> op, kind |-> kind, value |-> value, from_cache |-> from_cache]
NothingReturned == CallReturned("none", "none", NoCarbon, FALSE)

\* A thread between calls, with what its last call returned and whether that
\* call contacted the provider.
ThreadAtRest(returned, contacted) ==
    [op |-> "none", pc |-> "idle", key |-> "none", inner |-> FALSE, valid |-> FALSE,
     age |-> 0, national |-> <<>>, response |-> NoCarbon, data |-> NoCarbon,
     returned |-> returned,
     contacted |-> contacted]

\* No thread calls the client.
NoThreads == [th \in {} |-> ThreadAtRest(NothingReturned, FALSE)]

\* The cache key of a call.
CacheKey(op) == IF op = "forecast" THEN "forecast_24" ELSE "current_all"

\* `if cached:` is false for None and for an empty dict.
Truthy(cached) == cached.given /\ DOMAIN cached.value # {}

\* self._cache.get(key)
CacheGet(cache, key) ==
    IF key \in DOMAIN cache THEN [given |-> TRUE, value |-> cache[key]]
    ELSE [given |-> FALSE, value |-> NoCarbon]

\* d[key] = value on a dictionary.
DictSet(d, key, value) == [k \in (DOMAIN d) \cup {key} |-> IF k = key THEN value ELSE d[k]]

\* The variables a step of the client leaves alone.
ClientOnly ==
    UNCHANGED <<workloads, datacenters, carbon_data, carbon_forecast, base_time, running,
                sorted_workloads, i, dcs, assignments, dc_index, dp, schedule,
                baseline, fits_everywhere, service_vars, compare_vars, provider,
                datacenter, last_call, constructed, serialized>>

\* The thread th moves on with these locals.
ThreadBecomes(th, t) == threads' = [threads EXCEPT ![th] = t]

\* A get call of thread th returns value: to its caller, or, for the
\* get_current_intensity that get_forecast calls, to get_forecast.
GetReturns(th, value, from_cache, contacted) ==
    LET t == threads[th]
    IN  IF t.inner
        THEN ThreadBecomes(th, [t EXCEPT !.pc = "adjust", !.data = value,
                                         !.response = NoCarbon, !.contacted = contacted])
        ELSE ThreadBecomes(th, ThreadAtRest(CallReturned(t.op, "map", value, from_cache),
                                            contacted))

\* An exception leaves the call of thread th (and get_forecast with it, which
\* catches requests.RequestException only).
GetRaises(th, exception) ==
    ThreadBecomes(th, ThreadAtRest(CallReturned(threads[th].op, exception, NoCarbon, FALSE),
                                   threads[th].contacted))

\* A thread calls get_current_intensity(), get_forecast(24) or clear_cache().
ClientCall ==
    \E th \in DOMAIN threads : \E op \in {"current", "forecast", "clear"} :
        /\ threads[th].pc = "idle"
        /\ ThreadBecomes(th, [ThreadAtRest(NothingReturned, FALSE) EXCEPT
                                 !.op = op, !.key = CacheKey(op),
                                 !.pc = IF op = "clear" THEN "clear_cache" ELSE "valid_in"])
        /\ UNCHANGED client
        /\ ClientOnly

\* _is_cache_valid: `if key not in self._cache_timestamps: return False`.
ClientKeyInTimestamps ==
    \E th \in DOMAIN threads :
        LET t == threads[th]
        IN  /\ t.pc = "valid_in"
            /\ IF t.key \in DOMAIN client.timestamps
               THEN ThreadBecomes(th, [t EXCEPT !.pc = "valid_read"])
               ELSE ThreadBecomes(th, [t EXCEPT !.pc = "fetch", !.valid = FALSE])
            /\ UNCHANGED client
            /\ ClientOnly

\* _is_cache_valid: age = datetime.utcnow() - self._cache_timestamps[key];
\* return age < self.cache_ttl.  The subscript raises KeyError when the key
\* is gone.
ClientReadTimestamp ==
    \E th \in DOMAIN threads :
        LET t == threads[th]
            age == client.clock - client.timestamps[t.key]
        IN  /\ t.pc = "valid_read"
            /\ IF t.key \notin DOMAIN client.timestamps
               THEN GetRaises(th, "KeyError")
               ELSE ThreadBecomes(th, [t EXCEPT !.age = age, !.valid = age < CacheTtl,
                                       !.pc = IF age < CacheTtl THEN "cache_get" ELSE "fetch"])
            /\ UNCHANGED client
            /\ ClientOnly

\* _get_cached: return self._cache.get(key); then `if cached: return cached`.
ClientCacheGet ==
    \E th \in DOMAIN threads :
        LET t == threads[th]
            cached == CacheGet(client.cache, t.key)
        IN  /\ t.pc = "cache_get"
            /\ IF Truthy(cached)
               THEN GetReturns(th, cached.value, TRUE, t.contacted)
               ELSE ThreadBecomes(th, [t EXCEPT !.pc = "fetch"])
            /\ UNCHANGED client
            /\ ClientOnly

\* get_current_intensity past the cache: the regional endpoint is asked; the
\* defaults are returned when the request fails, else the filtered map goes
\* to _set_cache.
ClientFetchRegional ==
    \E th \in DOMAIN threads : \E fetch \in provider.regional :
        LET t == threads[th]
        IN  /\ t.pc = "fetch" /\ t.key = "current_all"
            /\ IF ~fetch.ok
               THEN GetReturns(th, DefaultCarbonData, FALSE, TRUE)
               ELSE ThreadBecomes(th, [t EXCEPT !.pc = "set_cache", !.contacted = TRUE,
                                                !.response = fetch.result,
                                                !.data = GetCurrentIntensity(fetch)])
            /\ UNCHANGED client
            /\ ClientOnly

\* get_forecast past the cache: the national endpoint is asked; a failed
\* request returns the default forecast, a body of another shape raises, and
\* otherwise get_current_intensity() is called next.
ClientFetchNational ==
    \E th \in DOMAIN threads : \E answer \in provider.national :
        LET t == threads[th]
        IN  /\ t.pc = "fetch" /\ t.key = "forecast_24"
            /\ IF answer.kind = "request_error"
               THEN ThreadBecomes(th, ThreadAtRest(
                        CallReturned(t.op, "map", GetDefaultForecast(TimeSlots), FALSE), TRUE))
               ELSE IF GetForecastRaises(answer)
               THEN ThreadBecomes(th, ThreadAtRest(CallReturned(t.op, "raised", NoCarbon, FALSE),
                                                   TRUE))
               ELSE ThreadBecomes(th, [t EXCEPT !.pc = "valid_in", !.key = "current_all",
                                                !.inner = TRUE, !.contacted = TRUE,
                                                !.national = answer.national])
            /\ UNCHANGED client
            /\ ClientOnly

\* get_forecast with `current` in hand: the national intensities are
\* adjusted per datacenter and the result goes to _set_cache.
ClientAdjust ==
    \E th \in DOMAIN threads :
        LET t == threads[th]
        IN  /\ t.pc = "adjust"
            /\ ThreadBecomes(th, [t EXCEPT
                   !.pc = "set_cache", !.key = "forecast_24", !.inner = FALSE,
                   !.data = GetForecast([kind |-> "ok", national |-> t.national],
                                        t.data, TimeSlots)])
            /\ UNCHANGED client
            /\ ClientOnly

\* _set_cache: self._cache[key] = data
ClientSetCache ==
    \E th \in DOMAIN threads :
        LET t == threads[th]
        IN  /\ t.pc = "set_cache"
            /\ client' = [client EXCEPT !.cache = DictSet(@, t.key, t.data)]
            /\ ThreadBecomes(th, [t EXCEPT !.pc = "set_timestamp"])
            /\ ClientOnly

\* _set_cache: self._cache_timestamps[key] = datetime.utcnow(); the get call
\* then returns what it stored.
ClientSetTimestamp ==
    \E th \in DOMAIN threads :
        LET t == threads[th]
        IN  /\ t.pc = "set_timestamp"
            /\ client' = [client EXCEPT !.timestamps = DictSet(@, t.key, client.clock)]
            /\ GetReturns(th, t.data, FALSE, t.contacted)
            /\ ClientOnly

\* clear_cache: self._cache.clear()
ClientClearCache ==
    \E th \in DOMAIN threads :
        /\ threads[th].pc = "clear_cache"
        /\ client' = [client EXCEPT !.cache = <<>>]
        /\ ThreadBecomes(th, [threads[th] EXCEPT !.pc = "clear_timestamps"])
        /\ ClientOnly

\* clear_cache: self._cache_timestamps.clear(), and the call returns.
ClientClearTimestamps ==
    \E th \in DOMAIN threads :
        /\ threads[th].pc = "clear_timestamps"
        /\ client' = [client EXCEPT !.timestamps = <<>>]
        /\ ThreadBecomes(th, ThreadAtRest(CallReturned("clear", "cleared", NoCarbon, FALSE),
                                          FALSE))
        /\ ClientOnly

\* Ten minutes pass.
ClientTick ==
    /\ DOMAIN threads # {}
    /\ client.clock < MaxClock
    /\ client' = [client EXCEPT !.clock = @ + 1]
    /\ UNCHANGED threads
    /\ ClientOnly

\* [x for x in s if keep(x)] for a list of Datacenters, by ids.
RECURSIVE SelectDatacenters(_, _)
SelectDatacenters(s, ids) ==
    IF s = <<>> THEN <<>>
    ELSE IF Head(s).id \in ids THEN <<Head(s)>> \o SelectDatacenters(Tail(s), ids)
         ELSE SelectDatacenters(Tail(s), ids)

\* _get_fresh_datacenters(datacenter_ids, carbon_data): `if datacenter_ids:`
\* and `if carbon_data:` are false for None and for an empty list or dict.
GetFreshDatacenters(all, datacenter_ids, carbon) ==
    LET requested == IF datacenter_ids.given /\ datacenter_ids.ids # <<>>
                     THEN SelectDatacenters(all, Range(datacenter_ids.ids))
                     ELSE all
        withdata == IF DOMAIN carbon # {}
                    THEN SelectDatacenters(requested, DOMAIN carbon)
                    ELSE requested
    IN  [k \in 1..Len(withdata) |-> ResetCapacity(withdata[k])]

\* [dc.id for dc in dcs]
Ids(list) == [k \in 1..Len(list) |-> list[k].id]

NoRequest == [algorithm |-> "none", datacenter_ids |-> NoIds]
NoResult == [success |-> FALSE, schedule |-> NoSchedule, baseline |-> NoSchedule,
             metrics |-> NoMetrics, carbon_data |-> NoCarbon, datacenters_used |-> <<>>]
\* The frame of compare_algorithms: the names still to run, the one being
\* run, its carbon snapshot, the fresh datacenters of the current iteration,
\* and the ledger, the workloads left and the assignments of the strategy
\* being run.
CompareFrame(phase_, algorithms, name, carbon, fresh, ledger, todo, asgs) ==
    [phase |-> phase_, algorithms |-> algorithms, name |-> name, carbon |-> carbon,
     dcs |-> fresh, ledger |-> ledger, todo |-> todo, assignments |-> asgs]

NoCompare == CompareFrame("none", <<>>, "none", NoCarbon, <<>>, <<>>, <<>>, <<>>)

\* The arguments of compare_algorithms: algorithms is None or a list of names.
NoAlgorithms == [given |-> FALSE, names |-> <<>>]
NoCompareRequest == [algorithms |-> NoAlgorithms, datacenter_ids |-> NoIds]

\* results[algo_name] = {'total_carbon': round(schedule.total_carbon, 2),
\* 'tasks_scheduled': len(schedule.assignments), ...}
ResultEntry(s) ==
    [total_carbon |-> Round2(TotalCarbon(s)), tasks_scheduled |-> Len(s.assignments),
     assignments |-> s.assignments]

\* results[name] = entry for a dict held as a function.
SetResult(results, name, s) ==
    [k \in DOMAIN results \cup {name} |-> IF k = name THEN ResultEntry(s) ELSE results[k]]

\* What compare_algorithms holds and returns: the forecast it fetched, the
\* table and the base time of dp_schedule while it runs it, the `results`
\* dict with its keys in insertion order, and, once it has returned,
\* best_algorithm, carbon_data and datacenters_used; when an exception left
\* the call, where it was raised.
NoComparison ==
    [outcome |-> "none", error |-> "none", forecast |-> [p \in {} |-> CarbonEntry(0, 0)],
     dp |-> <<>>, base_time |-> 0,
     results |-> [k \in {} |-> 0], keys |-> <<>>, best_algorithm |-> "none",
     carbon_data |-> NoCarbon, datacenters_used |-> {}]
NoCall == [op |-> "none", cpu |-> 0, memory |-> 0, returned |-> FALSE]

\* The service and the Datacenter object at rest.
ServiceAtRest ==
    /\ catalog = DEFAULT_DATACENTERS
    /\ datacenters_used = <<>>
    /\ result = NoResult
    /\ compare = NoCompare
    /\ compare_request = NoCompareRequest
    /\ comparison = NoComparison
    /\ provider = Provider(Fetches, ForecastAnswers)

ObjectAtRest ==
    /\ datacenter = Datacenter("DC-Low", 0, 0, 45)
    /\ last_call = NoCall
    /\ constructed = NoConstruction
    /\ serialized = NoDict
    /\ client = NewClient
    /\ threads = NoThreads

\* --------------------------------------------------------------------- Init
Init ==
    /\ \E n \in 0..MaxWorkloads : \E kinds \in [1..n -> WorkloadKinds] :
          workloads = [k \in 1..n |-> Workload(kinds[k], k)]
    /\ datacenters \in DatacenterFixtures
    /\ carbon_data \in CarbonMaps
    /\ carbon_forecast = [p \in {} |-> DefaultCarbon]
    /\ base_time = 0
    /\ running = "none"
    /\ sorted_workloads = <<>>
    /\ i = 1
    /\ dcs = <<>>
    /\ assignments = <<>>
    /\ dc_index = 0
    /\ dp = <<>>
    /\ schedule = NoSchedule
    /\ baseline = NoSchedule
    /\ fits_everywhere = TRUE
    /\ phase = "direct"
    /\ request = NoRequest
    /\ ServiceAtRest
    /\ ObjectAtRest

\* ------------------------------------------------------- common to the runs
\* ArrivalKeys with equal arrival times ordered last in, first out.
ArrivalKeysLastInFirst(ws) == [k \in 1..Len(ws) |-> <<ws[k].arrival_time, 0 - k>>]

\* key=lambda w: w.arrival_time
ArrivalKeys(ws) == [k \in 1..Len(ws) |-> <<ws[k].arrival_time, 0>>]

\* A strategy may be called when no run is in progress: first the strategy
\* under test, then fcfs_schedule as the baseline on the same fixture.
CanCallStrategy == running = "none" /\ schedule = NoSchedule
CanCallBaseline == running = "none" /\ schedule # NoSchedule /\ baseline = NoSchedule

\* A deterministic strategy may be called a second time on the same arguments
\* (its Schedule is kept as `baseline`).
CanRepeat(name) ==
    /\ running = "none" /\ phase = "direct"
    /\ schedule.algorithm_used = name /\ baseline = NoSchedule

\* The caller's list were the run to allocate on the caller's own objects
\* (`dcs = datacenters`).
CallerDatacentersAliased(caller, ledger) == ledger

\* The caller's Datacenter objects after the run has written to its ledger:
\* the ledger is a deep copy, so they are as they were.
CallerDatacenters(caller, ledger) == caller

\* StartRun going on with the ledger the run before left behind, when there
\* was one, instead of copying the datacenters passed in.
StartRunOnLedgerLeftBehind(name) ==
    /\ running' = name
    /\ dcs' = IF dcs = <<>> THEN datacenters ELSE dcs
    /\ sorted_workloads' = StableSort(workloads, ArrivalKeys(workloads))
    /\ assignments' = <<>>
    /\ i' = 1
    /\ dc_index' = 0
    /\ fits_everywhere' = TRUE

\* StartRun with the list of assignments carried over from the run before
\* instead of starting empty.
StartRunKeepingAssignments(name) ==
    /\ running' = name
    /\ dcs' = datacenters
    /\ sorted_workloads' = StableSort(workloads, ArrivalKeys(workloads))
    /\ assignments' = assignments
    /\ i' = 1
    /\ dc_index' = 0
    /\ fits_everywhere' = TRUE

\* dcs = deepcopy(datacenters); sorted_workloads = sorted(workloads, key=arrival_time)
StartRun(name) ==
    /\ running' = name
    /\ dcs' = datacenters
    /\ sorted_workloads' = StableSort(workloads, ArrivalKeys(workloads))
    /\ assignments' = <<>>
    /\ i' = 1
    /\ dc_index' = 0
    /\ fits_everywhere' = TRUE

\* return Schedule(assignments=..., algorithm_used=...)
ReturnSchedule(asgs, name) ==
    /\ running' = "none"
    /\ IF schedule = NoSchedule
          THEN schedule' = Schedule(asgs, name) /\ UNCHANGED baseline
          ELSE baseline' = Schedule(asgs, name) /\ UNCHANGED schedule

FitsEverywhere(ledger, w) ==
    \A d \in 1..Len(ledger) : CanAccommodate(ledger[d], w.cpu, w.memory)

\* ----------------------------------------------------------- fcfs_schedule
FcfsStart ==
    /\ CanCallStrategy \/ CanCallBaseline
    /\ StartRun("fcfs")
    /\ UNCHANGED <<service_vars, object_vars, compare_vars, provider, workloads, datacenters, carbon_data, carbon_forecast, base_time, dp, schedule, baseline>>

\* FcfsChoose consulting the carbon map: the first of the datacenters of lowest
\* recorded intensity among those that can accommodate w.
FcfsChooseByIntensity(ledger, w, carbon) ==
    LET fits == {d \in 1..Len(ledger) : CanAccommodate(ledger[d], w.cpu, w.memory)}
        lowest == {d \in fits : \A e \in fits :
                      CarbonGet(carbon, ledger[d].id).intensity
                         <= CarbonGet(carbon, ledger[e].id).intensity}
    IN  IF fits = {} THEN 0 ELSE Min(lowest)

\* The first datacenter of the ledger, in list order, that can accommodate w
\* (0 when none can).  The carbon map is at hand but not consulted.
FcfsChoose(ledger, w, carbon) ==
    LET fits == {d \in 1..Len(ledger) : CanAccommodate(ledger[d], w.cpu, w.memory)}
    IN  IF fits = {} THEN 0 ELSE Min(fits)

\* One iteration of `for workload in sorted_workloads`.
FcfsStep ==
    /\ running = "fcfs"
    /\ i <= Len(sorted_workloads)
    /\ LET w == sorted_workloads[i]
           d == FcfsChoose(dcs, w, carbon_data)
       IN  IF d = 0
           THEN UNCHANGED <<assignments, dcs>>
           ELSE /\ assignments' = Append(assignments,
                      Assignment(w, dcs[d], w.arrival_time, CarbonGet(carbon_data, dcs[d].id)))
                /\ dcs' = [dcs EXCEPT ![d] = Allocate(@, w.cpu, w.memory)]
    /\ fits_everywhere' = (fits_everywhere /\ FitsEverywhere(dcs, sorted_workloads[i]))
    /\ i' = i + 1
    /\ datacenters' = CallerDatacenters(datacenters, dcs')
    /\ UNCHANGED <<service_vars, object_vars, compare_vars, provider, workloads, carbon_data, carbon_forecast, base_time, running,
                   sorted_workloads, dc_index, dp, schedule, baseline>>

FcfsReturn ==
    /\ running = "fcfs"
    /\ i > Len(sorted_workloads)
    /\ ReturnSchedule(assignments, "fcfs")
    /\ UNCHANGED <<service_vars, object_vars, compare_vars, provider, workloads, datacenters, carbon_data, carbon_forecast, base_time,
                   sorted_workloads, i, dcs, assignments, dc_index, dp, fits_everywhere>>

\* --------------------------------------------------- round_robin_schedule
RoundRobinStart ==
    /\ CanCallStrategy \/ CanRepeat("round_robin")
    /\ StartRun("round_robin")
    /\ UNCHANGED <<service_vars, object_vars, compare_vars, provider, workloads, datacenters, carbon_data, carbon_forecast, base_time, dp, schedule, baseline>>

\* RoundRobinAttempts with the scan stopping one datacenter short
\* (`while attempts < len(dcs) - 1`).
RoundRobinAttemptsOneShort(ledger, cursor, w) ==
    LET D == Len(ledger)
        hits == {a \in 0..(D - 2) :
                    CanAccommodate(ledger[((cursor + a) % D) + 1], w.cpu, w.memory)}
    IN  IF hits = {} THEN D ELSE Min(hits)

\* The inner `while attempts < len(dcs)` loop: the number of datacenters passed
\* over before one at cursor + attempts (mod len) accommodates w; len(dcs) when
\* the loop runs out.
RoundRobinAttempts(ledger, cursor, w) ==
    LET D == Len(ledger)
        hits == {a \in 0..(D - 1) :
                    CanAccommodate(ledger[((cursor + a) % D) + 1], w.cpu, w.memory)}
    IN  IF hits = {} THEN D ELSE Min(hits)

\* RoundRobinCursor without the increment that ends the iteration.
RoundRobinCursorNotAdvanced(cursor, attempts) == cursor + attempts

\* The cursor after an iteration: dc_index += 1 for each datacenter passed
\* over, then dc_index += 1 to move to the next datacenter for the next task.
RoundRobinCursor(cursor, attempts) == cursor + attempts + 1

\* One iteration of `for workload in sorted_workloads`, cursor included.
RoundRobinStep ==
    /\ running = "round_robin"
    /\ i <= Len(sorted_workloads)
    /\ LET w == sorted_workloads[i]
           D == Len(dcs)
           attempts == RoundRobinAttempts(dcs, dc_index, w)
       IN  /\ IF attempts = D
              THEN UNCHANGED <<assignments, dcs>>
              ELSE LET d == ((dc_index + attempts) % D) + 1
                   IN  /\ assignments' = Append(assignments,
                              Assignment(w, dcs[d], w.arrival_time,
                                         CarbonGet(carbon_data, dcs[d].id)))
                       /\ dcs' = [dcs EXCEPT ![d] = Allocate(@, w.cpu, w.memory)]
           /\ dc_index' = RoundRobinCursor(dc_index, attempts)
    /\ fits_everywhere' = (fits_everywhere /\ FitsEverywhere(dcs, sorted_workloads[i]))
    /\ i' = i + 1
    /\ datacenters' = CallerDatacenters(datacenters, dcs')
    /\ UNCHANGED <<service_vars, object_vars, compare_vars, provider, workloads, carbon_data, carbon_forecast, base_time, running,
                   sorted_workloads, dp, schedule, baseline>>

RoundRobinReturn ==
    /\ running = "round_robin"
    /\ i > Len(sorted_workloads)
    /\ ReturnSchedule(assignments, "round_robin")
    /\ UNCHANGED <<service_vars, object_vars, compare_vars, provider, workloads, datacenters, carbon_data, carbon_forecast, base_time,
                   sorted_workloads, i, dcs, assignments, dc_index, dp, fits_everywhere>>

\* --------------------------------------------------------- random_schedule
RandomStart ==
    /\ CanCallStrategy
    /\ StartRun("random")
    /\ UNCHANGED <<service_vars, object_vars, compare_vars, provider, workloads, datacenters, carbon_data, carbon_forecast, base_time, dp, schedule, baseline>>

\* available_dcs = [dc for dc in dcs if dc.can_accommodate(...)], as positions.
AvailableDcs(ledger, w) ==
    {d \in 1..Len(ledger) : CanAccommodate(ledger[d], w.cpu, w.memory)}

\* One iteration of the loop; random.choice is any element of available_dcs.
RandomStep ==
    /\ running = "random"
    /\ i <= Len(sorted_workloads)
    /\ LET w == sorted_workloads[i]
       IN  IF AvailableDcs(dcs, w) = {}
           THEN UNCHANGED <<assignments, dcs>>
           ELSE \E d \in AvailableDcs(dcs, w) :
                /\ assignments' = Append(assignments,
                      Assignment(w, dcs[d], w.arrival_time, CarbonGet(carbon_data, dcs[d].id)))
                /\ dcs' = [dcs EXCEPT ![d] = Allocate(@, w.cpu, w.memory)]
    /\ fits_everywhere' = (fits_everywhere /\ FitsEverywhere(dcs, sorted_workloads[i]))
    /\ i' = i + 1
    /\ datacenters' = CallerDatacenters(datacenters, dcs')
    /\ UNCHANGED <<service_vars, object_vars, compare_vars, provider, workloads, carbon_data, carbon_forecast, base_time, running,
                   sorted_workloads, dc_index, dp, schedule, baseline>>

RandomReturn ==
    /\ running = "random"
    /\ i > Len(sorted_workloads)
    /\ ReturnSchedule(assignments, "random")
    /\ UNCHANGED <<service_vars, object_vars, compare_vars, provider, workloads, datacenters, carbon_data, carbon_forecast, base_time,
                   sorted_workloads, i, dcs, assignments, dc_index, dp, fits_everywhere>>

\* --------------------------------------------------------- greedy_schedule
GreedyStart ==
    /\ CanCallStrategy \/ CanRepeat("greedy")
    /\ StartRun("greedy")
    /\ UNCHANGED <<service_vars, object_vars, compare_vars, provider, workloads, datacenters, carbon_data, carbon_forecast, base_time, dp, schedule, baseline>>

\* get_carbon_intensity(dc): the sort key; 999 for a datacenter without entry.
GetCarbonIntensity(dc, carbon) ==
    IF dc.id \in DOMAIN carbon THEN carbon[dc.id].intensity ELSE 999

\* GreedyChoose without the sort: the first datacenter with capacity.
GreedyChooseUnsorted(ledger, w, carbon) ==
    LET avail == AvailableDcs(ledger, w)
    IN  IF avail = {} THEN 0 ELSE Min(avail)

\* GreedyChoose with the sort reversed: the highest intensity first.
GreedyChooseHighest(ledger, w, carbon) ==
    LET avail == AvailableDcs(ledger, w)
        highest == {d \in avail : \A e \in avail :
                      GetCarbonIntensity(ledger[d], carbon) >= GetCarbonIntensity(ledger[e], carbon)}
    IN  IF avail = {} THEN 0 ELSE Min(highest)

\* available_dcs.sort(key=get_carbon_intensity); selected_dc = available_dcs[0]:
\* the sort is stable, so among the datacenters of lowest key the first in list
\* order comes first (0 when no datacenter has capacity).
GreedyChoose(ledger, w, carbon) ==
    LET avail == AvailableDcs(ledger, w)
        lowest == {d \in avail : \A e \in avail :
                      GetCarbonIntensity(ledger[d], carbon) <= GetCarbonIntensity(ledger[e], carbon)}
    IN  IF avail = {} THEN 0 ELSE Min(lowest)

GreedyStep ==
    /\ running = "greedy"
    /\ i <= Len(sorted_workloads)
    /\ LET w == sorted_workloads[i]
           d == GreedyChoose(dcs, w, carbon_data)
       IN  IF d = 0
           THEN UNCHANGED <<assignments, dcs>>
           ELSE /\ assignments' = Append(assignments,
                      Assignment(w, dcs[d], w.arrival_time, CarbonGet(carbon_data, dcs[d].id)))
                /\ dcs' = [dcs EXCEPT ![d] = Allocate(@, w.cpu, w.memory)]
    /\ fits_everywhere' = (fits_everywhere /\ FitsEverywhere(dcs, sorted_workloads[i]))
    /\ i' = i + 1
    /\ datacenters' = CallerDatacenters(datacenters, dcs')
    /\ UNCHANGED <<service_vars, object_vars, compare_vars, provider, workloads, carbon_data, carbon_forecast, base_time, running,
                   sorted_workloads, dc_index, dp, schedule, baseline>>

GreedyReturn ==
    /\ running = "greedy"
    /\ i > Len(sorted_workloads)
    /\ ReturnSchedule(assignments, "greedy")
    /\ UNCHANGED <<service_vars, object_vars, compare_vars, provider, workloads, datacenters, carbon_data, carbon_forecast, base_time,
                   sorted_workloads, i, dcs, assignments, dc_index, dp, fits_everywhere>>

\* ------------------------------------------------------------- dp_schedule
\* key=lambda w: (-w.priority, w.arrival_time)
PriorityKeys(ws) == [k \in 1..Len(ws) |-> <<0 - ws[k].priority, ws[k].arrival_time>>]

\* task_duration_slots = max(1, int(task.duration)); int() truncates.
DurationSlots(w) == IF w.duration \div 2 >= 1 THEN w.duration \div 2 ELSE 1

\* A table entry (INF, []); dp.get(key, (INF, [])) gives it for an absent key.
DpInf == [inf |-> TRUE, carbon |-> 0, assignments |-> <<>>]

\* The keys (t, dc_idx) of one level of the table.
DpKeys(D) == Slots \X (1..D)

\* Search order of the nested loops over (t, dc): ascending t, then dc.
PairLessEq(p, q) == p[1] < q[1] \/ (p[1] = q[1] /\ p[2] <= q[2])

\* The first entry, in search order, of least carbon among the finite entries
\* of table at the keys in keys (the loops replace the best so far only by a
\* strictly lower value); <<>> when every entry is INF.
DpFirstLeast(table, keys) ==
    LET finite == {p \in keys : ~table[p].inf}
    IN  IF finite = {} THEN <<>>
        ELSE CHOOSE p \in finite : \A q \in finite :
                \/ table[p].carbon < table[q].carbon
                \/ (table[p].carbon = table[q].carbon /\ PairLessEq(p, q))

\* Base case: dp[(0, t, dc_idx)] = (0.0, []).
DpBase(D) == [p \in DpKeys(D) |-> [inf |-> FALSE, carbon |-> 0, assignments |-> <<>>]]

\* DpFill with a task that does not fit a datacenter passed over: the entry
\* is the best entry of the previous level, without an assignment for it.
DpFillCarryingOver(prev, task, dclist, forecast, now) ==
    LET D == Len(dclist)
    IN  [p \in DpKeys(D) |->
            LET t == p[1]
                dc == dclist[p[2]]
                carbon == CarbonGet(forecast, <<dc.id, t>>)
                carbon_cost == EnergyKwh(task) * carbon.intensity
                best == DpFirstLeast(prev, {q \in DpKeys(D) : q[1] <= t})
            IN  IF t + DurationSlots(task) > TimeSlots THEN DpInf
                ELSE IF best = <<>> THEN DpInf
                ELSE IF ~CanAccommodate(dc, task.cpu, task.memory) THEN prev[best]
                ELSE [inf |-> FALSE,
                      carbon |-> prev[best].carbon + carbon_cost,
                      assignments |-> Append(prev[best].assignments,
                                             Assignment(task, dc, now + 2 * t, carbon))]]

\* DpFill with the previous state searched over every slot
\* (`for t_prev in range(T)`).
DpFillAnyPreviousSlot(prev, task, dclist, forecast, now) ==
    LET D == Len(dclist)
    IN  [p \in DpKeys(D) |->
            LET t == p[1]
                dc == dclist[p[2]]
                carbon == CarbonGet(forecast, <<dc.id, t>>)
                carbon_cost == EnergyKwh(task) * carbon.intensity
                best == DpFirstLeast(prev, DpKeys(D))
            IN  IF t + DurationSlots(task) > TimeSlots THEN DpInf
                ELSE IF ~CanAccommodate(dc, task.cpu, task.memory) THEN DpInf
                ELSE IF best = <<>> THEN DpInf
                ELSE [inf |-> FALSE,
                      carbon |-> prev[best].carbon + carbon_cost,
                      assignments |-> Append(prev[best].assignments,
                                             Assignment(task, dc, now + 2 * t, carbon))]]

\* One level of the table, dp[(i, t, dc_idx)] for every t and dc_idx, from the
\* level before it.  The capacity test reads the caller's datacenters, never
\* allocated, and the entry chains onto the best entry of the previous level
\* at a slot t_prev <= t.
DpFill(prev, task, dclist, forecast, now) ==
    LET D == Len(dclist)
    IN  [p \in DpKeys(D) |->
            LET t == p[1]
                dc == dclist[p[2]]
                carbon == CarbonGet(forecast, <<dc.id, t>>)
                carbon_cost == EnergyKwh(task) * carbon.intensity
                best == DpFirstLeast(prev, {q \in DpKeys(D) : q[1] <= t})
            IN  IF t + DurationSlots(task) > TimeSlots THEN DpInf
                ELSE IF ~CanAccommodate(dc, task.cpu, task.memory) THEN DpInf
                ELSE IF best = <<>> THEN DpInf
                ELSE [inf |-> FALSE,
                      carbon |-> prev[best].carbon + carbon_cost,
                      assignments |-> Append(prev[best].assignments,
                                             Assignment(task, dc, now + 2 * t, carbon))]]

\* Find optimal final state: the first entry of least carbon of the last level.
DpOptimal(table, D) ==
    LET best == DpFirstLeast(table, DpKeys(D))
    IN  IF best = <<>> THEN <<>> ELSE table[best].assignments

\* The call, with one of these forecasts: with an empty batch it returns an
\* empty Schedule at once.
DpStartOn(forecasts) ==
    /\ CanCallStrategy \/ CanRepeat("dp")
    /\ IF schedule = NoSchedule
       THEN /\ \E forecast \in forecasts : carbon_forecast' = forecast
            /\ \E now \in BaseTimes : base_time' = now
       ELSE UNCHANGED <<carbon_forecast, base_time>>
    /\ IF Len(workloads) = 0
       THEN /\ ReturnSchedule(<<>>, "dp")
            /\ UNCHANGED <<sorted_workloads, i, dp>>
       ELSE /\ running' = "dp"
            /\ sorted_workloads' = StableSort(workloads, PriorityKeys(workloads))
            /\ dp' = DpBase(Len(datacenters))
            /\ i' = 1
            /\ UNCHANGED <<schedule, baseline>>
    /\ UNCHANGED <<service_vars, object_vars, compare_vars, provider, workloads, datacenters, carbon_data, dcs, assignments, dc_index,
                   fits_everywhere>>

\* dp_schedule called by a test, with a forecast of the test's making.
DpStart == DpStartOn(Forecasts)

\* One iteration of `for i in range(1, n + 1)`.
DpStep ==
    /\ running = "dp"
    /\ i <= Len(sorted_workloads)
    /\ dp' = DpFill(dp, sorted_workloads[i], datacenters, carbon_forecast, base_time)
    /\ i' = i + 1
    /\ UNCHANGED <<service_vars, object_vars, compare_vars, provider, workloads, datacenters, carbon_data, carbon_forecast, base_time, running,
                   sorted_workloads, dcs, assignments, dc_index, schedule, baseline,
                   fits_everywhere>>

DpReturn ==
    /\ running = "dp"
    /\ i > Len(sorted_workloads)
    /\ ReturnSchedule(DpOptimal(dp, Len(datacenters)), "dp")
    /\ UNCHANGED <<service_vars, object_vars, compare_vars, provider, workloads, datacenters, carbon_data, carbon_forecast, base_time,
                   sorted_workloads, i, dcs, assignments, dc_index, dp, fits_everywhere>>

\* ------------------------------------------------ OptimizerService.optimize
\* No strategy called yet and nothing left over from an earlier call.
StrategiesAtRest ==
    /\ carbon_forecast = [p \in {} |-> DefaultCarbon]
    /\ base_time = 0
    /\ running = "none"
    /\ sorted_workloads = <<>>
    /\ i = 1
    /\ dcs = <<>>
    /\ assignments = <<>>
    /\ dc_index = 0
    /\ dp = <<>>
    /\ schedule = NoSchedule
    /\ baseline = NoSchedule
    /\ fits_everywhere = TRUE

\* optimize(workloads, algorithm, datacenter_ids) up to the choice of the
\* strategy: the carbon snapshot is fetched and the datacenters are filtered,
\* copied and reset; for 'dp' the forecast is fetched next, and an exception
\* leaving get_forecast leaves optimize, which then returns nothing.  The
\* locals of the call before are gone.
OptimizeCall ==
    /\ phase \in {"idle", "raised"}
    /\ \E fetch \in provider.regional :
          LET snapshot == GetCurrentIntensity(fetch)
              fresh == GetFreshDatacenters(catalog, request.datacenter_ids, snapshot)
          IN  /\ carbon_data' = snapshot
              /\ datacenters' = fresh
              /\ datacenters_used' = Ids(fresh)
              /\ IF request.algorithm = "dp"
                 THEN \E answer \in provider.national :
                        IF GetForecastRaises(answer)
                        THEN /\ phase' = "raised"
                             /\ carbon_forecast' = [p \in {} |-> DefaultCarbon]
                        ELSE /\ phase' = "strategy"
                             /\ carbon_forecast' \in ForecastsReturned(answer, fetch, TimeSlots)
                 ELSE /\ phase' = "strategy"
                      /\ carbon_forecast' = [p \in {} |-> DefaultCarbon]
    /\ result' = NoResult
    /\ base_time' = 0
    /\ running' = "none"
    /\ sorted_workloads' = <<>>
    /\ i' = 1
    /\ dcs' = <<>>
    /\ assignments' = <<>>
    /\ dc_index' = 0
    /\ dp' = <<>>
    /\ schedule' = NoSchedule
    /\ baseline' = NoSchedule
    /\ fits_everywhere' = TRUE
    /\ UNCHANGED <<workloads, catalog, request, compare, object_vars, compare_vars, provider>>

\* schedule = algo_func(workloads, dcs, ...): the strategy the name maps to,
\* dp_schedule with the forecast fetched when the name is 'dp'.
OptimizeRunStrategy ==
    /\ phase = "strategy"
    /\ CanCallStrategy
    /\ \/ AlgoFunc(request.algorithm) = "greedy" /\ GreedyStart
       \/ /\ AlgoFunc(request.algorithm) = "dp" /\ request.algorithm = "dp"
          /\ DpStartOn({carbon_forecast})
       \/ AlgoFunc(request.algorithm) = "fcfs" /\ FcfsStart

\* baseline_dcs = self._get_fresh_datacenters(datacenter_ids, carbon_data)
OptimizeFreshBaseline ==
    /\ phase = "strategy"
    /\ running = "none" /\ schedule # NoSchedule
    /\ datacenters' = GetFreshDatacenters(catalog, request.datacenter_ids, carbon_data)
    /\ phase' = "baseline"
    /\ UNCHANGED <<workloads, carbon_data, carbon_forecast, base_time, running,
                   sorted_workloads, i, dcs, assignments, dc_index, dp, schedule,
                   baseline, fits_everywhere, catalog, request, datacenters_used,
                   result, compare, object_vars, compare_vars, provider>>

\* baseline = fcfs_schedule(workloads, baseline_dcs, carbon_data)
OptimizeRunBaseline ==
    /\ phase = "baseline"
    /\ CanCallBaseline
    /\ FcfsStart

\* return {'success': True, 'schedule': ..., 'baseline': ..., ...}
OptimizeReturn ==
    /\ phase = "baseline"
    /\ running = "none" /\ baseline # NoSchedule
    /\ LET metrics == CalculateAllMetrics(schedule, baseline)
       IN  IF metrics.raised
           THEN result' = NoResult /\ phase' = "raised"
           ELSE /\ result' = [success |-> TRUE, schedule |-> schedule,
                              baseline |-> baseline, metrics |-> metrics,
                              carbon_data |-> carbon_data,
                              datacenters_used |-> datacenters_used]
                /\ phase' = "idle"
    /\ UNCHANGED <<workloads, datacenters, carbon_data, carbon_forecast, base_time, running,
                   sorted_workloads, i, dcs, assignments, dc_index, dp, schedule,
                   baseline, fits_everywhere, catalog, request, datacenters_used,
                   compare, object_vars, compare_vars, provider>>

\* ------------------------------------- OptimizerService.compare_algorithms
\* The lists of algorithms compare_algorithms is called with: None (the
\* default ['greedy', 'dp', 'fcfs']), lists with names ALGORITHMS does not
\* hold, and the empty list.
CompareLists ==
    { NoAlgorithms,
      [given |-> TRUE, names |-> <<"fcfs", "greedy">>],
      [given |-> TRUE, names |-> <<"round_robin", "fcfs">>],
      [given |-> TRUE, names |-> <<"random">>],
      [given |-> TRUE, names |-> <<>>] }

\* compare_algorithms(workloads, algorithms, datacenter_ids): the default
\* list, then the carbon snapshot and the forecast are fetched once.  An
\* exception leaving get_forecast leaves compare_algorithms.
CompareCall ==
    /\ compare.phase = "idle"
    /\ LET algorithms == IF compare_request.algorithms.given
                         THEN compare_request.algorithms.names
                         ELSE <<"greedy", "dp", "fcfs">>
       IN  \E fetch \in provider.regional, answer \in provider.national :
               IF GetForecastRaises(answer)
               THEN /\ comparison' = [NoComparison EXCEPT !.outcome = "raised",
                                                           !.error = "get_forecast"]
                    /\ UNCHANGED compare
               ELSE /\ compare' = CompareFrame("loop", algorithms, "none",
                                               GetCurrentIntensity(fetch), <<>>, <<>>, <<>>, <<>>)
                    /\ \E forecast \in ForecastsReturned(answer, fetch, TimeSlots) :
                          comparison' = [NoComparison EXCEPT !.outcome = "running",
                                                             !.forecast = forecast]
    /\ UNCHANGED <<workloads, datacenters, carbon_data, carbon_forecast, base_time, running,
                   sorted_workloads, i, dcs, assignments, dc_index, dp, schedule,
                   baseline, fits_everywhere, catalog, request, phase, datacenters_used,
                   result, object_vars, compare_request, provider>>

\* `for algo_name in algorithms`: fresh datacenters for the algorithm, which
\* is skipped when ALGORITHMS has no such name; else the strategy is called.
\* greedy and fcfs copy the datacenters they are given; dp_schedule sets up
\* its table.
CompareNextAlgorithm ==
    /\ compare.phase = "loop"
    /\ compare.algorithms # <<>>
    /\ LET name == Head(compare.algorithms)
           fresh == GetFreshDatacenters(catalog, compare_request.datacenter_ids, compare.carbon)
       IN  IF name \notin DOMAIN ALGORITHMS
           THEN /\ compare' = CompareFrame("loop", Tail(compare.algorithms), "none",
                                           compare.carbon, fresh, <<>>, <<>>, <<>>)
                /\ UNCHANGED comparison
           ELSE IF name = "dp"
           THEN /\ compare' = CompareFrame("run", compare.algorithms, name, compare.carbon,
                                           fresh, fresh,
                                           StableSort(workloads, PriorityKeys(workloads)), <<>>)
                /\ \E now \in BaseTimes :
                      comparison' = [comparison EXCEPT !.dp = DpBase(Len(fresh)),
                                                       !.base_time = now]
           ELSE /\ compare' = CompareFrame("run", compare.algorithms, name, compare.carbon,
                                           fresh, fresh,
                                           StableSort(workloads, ArrivalKeys(workloads)), <<>>)
                /\ UNCHANGED comparison
    /\ UNCHANGED <<workloads, datacenters, carbon_data, carbon_forecast, base_time, running,
                   sorted_workloads, i, dcs, assignments, dc_index, dp, schedule,
                   baseline, fits_everywhere, catalog, request, phase, datacenters_used,
                   result, object_vars, compare_request, provider>>

\* One workload of the strategy compare_algorithms is running: greedy and
\* fcfs place it on their ledger, dp_schedule fills the next level of its
\* table from the datacenters it was given.
CompareStep ==
    /\ compare.phase = "run"
    /\ compare.todo # <<>>
    /\ LET w == Head(compare.todo)
           d == IF compare.name = "greedy"
                THEN GreedyChoose(compare.ledger, w, compare.carbon)
                ELSE FcfsChoose(compare.ledger, w, compare.carbon)
       IN  IF compare.name = "dp"
           THEN /\ compare' = [compare EXCEPT !.todo = Tail(@)]
                /\ comparison' = [comparison EXCEPT
                       !.dp = DpFill(@, w, compare.dcs, comparison.forecast,
                                     comparison.base_time)]
           ELSE IF d = 0
           THEN /\ compare' = [compare EXCEPT !.todo = Tail(@)]
                /\ UNCHANGED comparison
           ELSE /\ compare' = [compare EXCEPT
                               !.todo = Tail(@),
                               !.ledger = [@ EXCEPT ![d] = Allocate(@, w.cpu, w.memory)],
                               !.assignments = Append(@,
                                   Assignment(w, compare.ledger[d], w.arrival_time,
                                              CarbonGet(compare.carbon, compare.ledger[d].id)))]
                /\ UNCHANGED comparison
    /\ UNCHANGED <<workloads, datacenters, carbon_data, carbon_forecast, base_time, running,
                   sorted_workloads, i, dcs, assignments, dc_index, dp, schedule,
                   baseline, fits_everywhere, catalog, request, phase, datacenters_used,
                   result, object_vars, compare_request, provider>>

\* The strategy returns: results[algo_name] = {...}, and the loop goes on to
\* the next name.
CompareStrategyReturns ==
    /\ compare.phase = "run"
    /\ compare.todo = <<>>
    /\ LET returned == IF compare.name = "dp" /\ workloads # <<>>
                       THEN DpOptimal(comparison.dp, Len(compare.dcs))
                       ELSE compare.assignments
       IN  comparison' = [comparison EXCEPT
               !.results = SetResult(@, compare.name, Schedule(returned, compare.name)),
               !.keys = IF compare.name \in Range(@) THEN @ ELSE Append(@, compare.name),
               !.dp = <<>>,
               !.base_time = 0]
    /\ compare' = CompareFrame("loop", Tail(compare.algorithms), "none", compare.carbon,
                               compare.dcs, <<>>, <<>>, <<>>)
    /\ UNCHANGED <<workloads, datacenters, carbon_data, carbon_forecast, base_time, running,
                   sorted_workloads, i, dcs, assignments, dc_index, dp, schedule,
                   baseline, fits_everywhere, catalog, request, phase, datacenters_used,
                   result, object_vars, compare_request, provider>>

\* BestAlgorithm answering with the first key of the results.
BestAlgorithmFirstKey(results, keys) == keys[1]

\* best_algo = min(results.keys(), key=...): the first key, in the order the
\* keys were inserted, whose total_carbon no key undercuts.
BestAlgorithm(results, keys) ==
    keys[CHOOSE k \in 1..Len(keys) :
            /\ \A j \in 1..Len(keys) :
                  results[keys[k]].total_carbon <= results[keys[j]].total_carbon
            /\ \A j \in 1..(k - 1) :
                  results[keys[j]].total_carbon > results[keys[k]].total_carbon]

\* The loop is over: min() of an empty `results` raises ValueError; else
\* compare_algorithms returns its results, the best algorithm and the keys
\* of the carbon snapshot as datacenters_used.
CompareReturn ==
    /\ compare.phase = "loop"
    /\ compare.algorithms = <<>>
    /\ IF comparison.keys = <<>>
       THEN comparison' = [NoComparison EXCEPT !.outcome = "raised", !.error = "min"]
       ELSE comparison' = [comparison EXCEPT
               !.outcome = "returned",
               !.forecast = NoComparison.forecast,
               !.best_algorithm = BestAlgorithm(comparison.results, comparison.keys),
               !.carbon_data = compare.carbon,
               !.datacenters_used = DOMAIN compare.carbon]
    /\ compare' = CompareFrame("idle", <<>>, "none", NoCarbon, <<>>, <<>>, <<>>, <<>>)
    /\ UNCHANGED <<workloads, datacenters, carbon_data, carbon_forecast, base_time, running,
                   sorted_workloads, i, dcs, assignments, dc_index, dp, schedule,
                   baseline, fits_everywhere, catalog, request, phase, datacenters_used,
                   result, object_vars, compare_request, provider>>

\* ------------------------------------------- a Datacenter object on its own
\* Largest cpu or memory amount, and largest total, of the object driven.
MaxAmount == 3
MaxAssignments == 4     \* assignments of a schedule that is serialized
Amounts == 0..MaxAmount

DatacenterAllocate ==
    /\ phase = "object"
    /\ \E cpu \in Amounts, memory \in Amounts :
          /\ datacenter' = Allocate(datacenter, cpu, memory)
          /\ last_call' = [op |-> "allocate", cpu |-> cpu, memory |-> memory,
                           returned |-> AllocateReturns(datacenter, cpu, memory)]
    /\ UNCHANGED <<workloads, datacenters, carbon_data, carbon_forecast, base_time, running,
                   sorted_workloads, i, dcs, assignments, dc_index, dp, schedule,
                   baseline, fits_everywhere, service_vars, compare_vars, provider,
                   constructed, serialized, client, threads>>

DatacenterRelease ==
    /\ phase = "object"
    /\ \E cpu \in Amounts, memory \in Amounts :
          /\ datacenter' = Release(datacenter, cpu, memory)
          /\ last_call' = [op |-> "release", cpu |-> cpu, memory |-> memory,
                           returned |-> FALSE]
    /\ UNCHANGED <<workloads, datacenters, carbon_data, carbon_forecast, base_time, running,
                   sorted_workloads, i, dcs, assignments, dc_index, dp, schedule,
                   baseline, fits_everywhere, service_vars, compare_vars, provider,
                   constructed, serialized, client, threads>>

DatacenterResetCapacity ==
    /\ phase = "object"
    /\ datacenter' = ResetCapacity(datacenter)
    /\ last_call' = [op |-> "reset_capacity", cpu |-> 0, memory |-> 0, returned |-> FALSE]
    /\ UNCHANGED <<workloads, datacenters, carbon_data, carbon_forecast, base_time, running,
                   sorted_workloads, i, dcs, assignments, dc_index, dp, schedule,
                   baseline, fits_everywhere, service_vars, compare_vars, provider,
                   constructed, serialized, client, threads>>

Next ==
    \/ FcfsStart
    \/ FcfsStep
    \/ FcfsReturn
    \/ RoundRobinStart
    \/ RoundRobinStep
    \/ RoundRobinReturn
    \/ RandomStart
    \/ RandomStep
    \/ RandomReturn
    \/ GreedyStart
    \/ GreedyStep
    \/ GreedyReturn
    \/ DpStart
    \/ DpStep
    \/ DpReturn

Spec == Init /\ [][Next]_vars

\* The service idle, before its first optimize call; `request` holds the
\* arguments the caller makes its calls with.
InitOptimizer ==
    /\ \E n \in 0..MaxWorkloads : \E kinds \in [1..n -> WorkloadKinds] :
          workloads = [k \in 1..n |-> Workload(kinds[k], k)]
    /\ datacenters = <<>>
    /\ carbon_data = NoCarbon
    /\ StrategiesAtRest
    /\ phase = "idle"
    /\ \E algorithm \in AlgorithmNames, ids \in DatacenterIdLists :
          request = [algorithm |-> algorithm, datacenter_ids |-> ids]
    /\ ServiceAtRest
    /\ ObjectAtRest

\* optimize called again and again on the shared service.
NextOptimizer ==
    \/ OptimizeCall
    \/ OptimizeRunStrategy
    \/ GreedyStep
    \/ GreedyReturn
    \/ DpStep
    \/ DpReturn
    \/ FcfsStep
    \/ FcfsReturn
    \/ OptimizeFreshBaseline
    \/ OptimizeRunBaseline
    \/ OptimizeReturn

SpecOptimizer == InitOptimizer /\ [][NextOptimizer]_vars

\* The workloads of the requests made of the shared service at once.
SharedKinds == {w \in WorkloadKinds : w.arrival_time = 0 /\ w.cpu <= 2}

\* The shared service idle, a caller of optimize and a caller of
\* compare_algorithms about to call it, and a provider whose regional
\* endpoint fails or answers for two datacenters.
InitShared ==
    /\ \E n \in 0..MaxWorkloads : \E kinds \in [1..n -> SharedKinds] :
          workloads = [k \in 1..n |-> Workload(kinds[k], k)]
    /\ datacenters = <<>>
    /\ carbon_data = NoCarbon
    /\ StrategiesAtRest
    /\ phase = "idle"
    /\ \E algorithm \in DOMAIN ALGORITHMS :
          request = [algorithm |-> algorithm, datacenter_ids |-> NoIds]
    /\ catalog = DEFAULT_DATACENTERS
    /\ datacenters_used = <<>>
    /\ result = NoResult
    /\ compare = CompareFrame("idle", <<>>, "none", NoCarbon, <<>>, <<>>, <<>>, <<>>)
    /\ compare_request = NoCompareRequest
    /\ comparison = NoComparison
    /\ provider = Provider({f \in Fetches : Cardinality(DOMAIN f.result) = 2 \/ ~f.ok},
                           {a \in ForecastAnswers : Len(a.national) # 1})
    /\ ObjectAtRest

\* optimize and compare_algorithms called again and again, their steps
\* interleaved in any order.
NextShared ==
    \/ NextOptimizer
    \/ CompareCall
    \/ CompareNextAlgorithm
    \/ CompareStep
    \/ CompareStrategyReturns
    \/ CompareReturn

SpecShared == InitShared /\ [][NextShared]_vars

\* The service idle and a caller about to call compare_algorithms.
InitCompare ==
    /\ \E n \in 0..MaxWorkloads : \E kinds \in [1..n -> WorkloadKinds] :
          workloads = [k \in 1..n |-> Workload(kinds[k], k)]
    /\ datacenters = <<>>
    /\ carbon_data = NoCarbon
    /\ StrategiesAtRest
    /\ phase = "compare"
    /\ request = NoRequest
    /\ catalog = DEFAULT_DATACENTERS
    /\ datacenters_used = <<>>
    /\ result = NoResult
    /\ compare = CompareFrame("idle", <<>>, "none", NoCarbon, <<>>, <<>>, <<>>, <<>>)
    /\ \E algorithms \in CompareLists, ids \in DatacenterIdLists :
          compare_request = [algorithms |-> algorithms, datacenter_ids |-> ids]
    /\ comparison = NoComparison
    /\ provider = Provider(Fetches, ForecastAnswers)
    /\ ObjectAtRest

\* compare_algorithms called again and again.
NextCompare ==
    \/ CompareCall
    \/ CompareNextAlgorithm
    \/ CompareStep
    \/ CompareStrategyReturns
    \/ CompareReturn

SpecCompare == InitCompare /\ [][NextCompare]_vars

\* A Datacenter constructed with available = total.
InitDatacenter ==
    /\ workloads = <<>>
    /\ datacenters = <<>>
    /\ carbon_data = NoCarbon
    /\ StrategiesAtRest
    /\ phase = "object"
    /\ request = NoRequest
    /\ ServiceAtRest
    /\ \E total_cpu \in Amounts, total_memory \in Amounts :
          datacenter = Datacenter("DC-Low", total_cpu, total_memory, 45)
    /\ last_call = NoCall
    /\ constructed = NoConstruction
    /\ serialized = NoDict
    /\ client = NewClient
    /\ threads = NoThreads

\* ------------------------------------------------------- metrics on their own
\* The assignments the schedules handed to MetricsCalculator are made of:
\* two workloads on two datacenters, under an entry of intensity 0 and under
\* an ordinary one.
MetricsAssignments ==
    { Assignment(Workload(kind, 1), dc, 0, entry) :
        kind \in {k \in WorkloadKinds : k.cpu = 1 /\ k.priority = 5},
        dc \in {DEFAULT_DATACENTERS[1], DEFAULT_DATACENTERS[2]},
        entry \in {CarbonEntry(0, 100), CarbonEntry(150, 40)} }
    \cup { Assignment(Workload(kind, 2), DEFAULT_DATACENTERS[1], 1, CarbonEntry(90, 60)) :
             kind \in {k \in WorkloadKinds : k.cpu = 4} }

\* Schedules of up to MaxWorkloads of them, the empty one included.
MetricsSchedules(algorithm_used) ==
    { Schedule(asgs, algorithm_used) :
        asgs \in UNION {[1..n -> MetricsAssignments] : n \in 0..MaxWorkloads} }

InitMetrics ==
    /\ workloads = <<>>
    /\ datacenters = <<>>
    /\ carbon_data = NoCarbon
    /\ carbon_forecast = [p \in {} |-> DefaultCarbon]
    /\ base_time = 0
    /\ running = "none"
    /\ sorted_workloads = <<>>
    /\ i = 1
    /\ dcs = <<>>
    /\ assignments = <<>>
    /\ dc_index = 0
    /\ dp = <<>>
    /\ schedule \in MetricsSchedules("greedy")
    /\ baseline \in MetricsSchedules("fcfs")
    /\ fits_everywhere = TRUE
    /\ phase = "metrics"
    /\ request = NoRequest
    /\ ServiceAtRest
    /\ ObjectAtRest

\* MetricsCalculator.calculate_all_metrics(optimized, baseline), called on its
\* own; what it returned is kept in the metrics of result.
CalculateAllMetricsCall ==
    /\ phase = "metrics"
    /\ result = NoResult
    /\ result' = [NoResult EXCEPT !.success = TRUE,
                                  !.metrics = CalculateAllMetrics(schedule, baseline)]
    /\ UNCHANGED <<workloads, datacenters, carbon_data, carbon_forecast, base_time, running,
                   sorted_workloads, i, dcs, assignments, dc_index, dp, schedule,
                   baseline, fits_everywhere, catalog, request, phase, datacenters_used,
                   compare, object_vars, compare_vars, provider>>

NextMetrics == CalculateAllMetricsCall

SpecMetrics == InitMetrics /\ [][NextMetrics]_vars

\* ------------------------------------------------- Workload on its own
InitWorkload ==
    /\ workloads = <<>>
    /\ datacenters = <<>>
    /\ carbon_data = NoCarbon
    /\ StrategiesAtRest
    /\ phase = "workload"
    /\ request = NoRequest
    /\ ServiceAtRest
    /\ datacenter = Datacenter("DC-Low", 0, 0, 45)
    /\ last_call = NoCall
    /\ serialized = NoDict
    /\ client = NewClient
    /\ threads = NoThreads
    /\ \E cpu \in CpuValues, memory \in MemoryValues, duration \in DurationValues,
          priority \in PriorityValues, deadline \in {None, Some(60)},
          arrival_time \in {None, Some(4)} :
          constructed = Construction(WorkloadArgs(cpu, memory, duration, priority,
                                                  deadline, arrival_time))

\* Workload(...): the dataclass stores the arguments and runs __post_init__,
\* the clock reading one of two times.
WorkloadConstruct ==
    /\ phase = "workload"
    /\ constructed.outcome = "called"
    /\ \E now \in {0, 1} : constructed' = PostInit(constructed.args, now)
    /\ UNCHANGED <<workloads, datacenters, carbon_data, carbon_forecast, base_time, running,
                   sorted_workloads, i, dcs, assignments, dc_index, dp, schedule,
                   baseline, fits_everywhere, service_vars, compare_vars, provider,
                   datacenter, last_call, serialized, client, threads>>

NextWorkload == WorkloadConstruct

SpecWorkload == InitWorkload /\ [][NextWorkload]_vars

\* ------------------------------------------------- Schedule.to_dict on its own
\* The assignments of the schedules that are serialized, carbon_emissions and
\* cost counted in thousandths: 1 core for 1 h (0.1 kWh) at 123.44 gCO2/kWh
\* and 0.044 $ per core hour, at 40 gCO2/kWh for 0.001 h, and 2 cores for 1 h
\* at 150 gCO2/kWh.
SerializedAssignments ==
    { [workload_id |-> 1, datacenter_id |-> "UK-North", start_time |-> 0, end_time |-> 2,
       carbon_emissions |-> 12344, cost |-> 44, carbon_intensity |-> 123,
       renewable_percentage |-> 30],
      [workload_id |-> 2, datacenter_id |-> "UK-South", start_time |-> 0, end_time |-> 1,
       carbon_emissions |-> 4, cost |-> 0, carbon_intensity |-> 40,
       renewable_percentage |-> 60],
      [workload_id |-> 3, datacenter_id |-> "UK-North", start_time |-> 1, end_time |-> 3,
       carbon_emissions |-> 30000, cost |-> 90, carbon_intensity |-> 150,
       renewable_percentage |-> 30] }

InitSerialize ==
    /\ workloads = <<>>
    /\ datacenters = <<>>
    /\ carbon_data = NoCarbon
    /\ carbon_forecast = [p \in {} |-> DefaultCarbon]
    /\ base_time = 0
    /\ running = "none"
    /\ sorted_workloads = <<>>
    /\ i = 1
    /\ dcs = <<>>
    /\ assignments = <<>>
    /\ dc_index = 0
    /\ dp = <<>>
    /\ \E n \in 0..MaxAssignments : \E asgs \in [1..n -> SerializedAssignments] :
          schedule = Schedule(asgs, "greedy")
    /\ baseline = NoSchedule
    /\ fits_everywhere = TRUE
    /\ phase = "serialize"
    /\ request = NoRequest
    /\ ServiceAtRest
    /\ ObjectAtRest

\* schedule.to_dict()
ScheduleToDictCall ==
    /\ phase = "serialize"
    /\ serialized = NoDict
    /\ serialized' = ScheduleToDict(schedule)
    /\ UNCHANGED <<workloads, datacenters, carbon_data, carbon_forecast, base_time, running,
                   sorted_workloads, i, dcs, assignments, dc_index, dp, schedule,
                   baseline, fits_everywhere, service_vars, compare_vars, provider,
                   datacenter, last_call, constructed, client, threads>>

NextSerialize == ScheduleToDictCall

SpecSerialize == InitSerialize /\ [][NextSerialize]_vars

\* A new CarbonAPIClient called by the threads ths, against a provider that
\* gives these answers.
ClientStarts(ths, regional, national) ==
    /\ workloads = <<>>
    /\ datacenters = <<>>
    /\ carbon_data = NoCarbon
    /\ carbon_forecast = [p \in {} |-> DefaultCarbon]
    /\ base_time = 0
    /\ running = "none"
    /\ sorted_workloads = <<>>
    /\ i = 1
    /\ dcs = <<>>
    /\ assignments = <<>>
    /\ dc_index = 0
    /\ dp = <<>>
    /\ schedule = NoSchedule
    /\ baseline = NoSchedule
    /\ fits_everywhere = TRUE
    /\ phase = "client"
    /\ request = NoRequest
    /\ catalog = DEFAULT_DATACENTERS
    /\ datacenters_used = <<>>
    /\ result = NoResult
    /\ compare = NoCompare
    /\ compare_request = NoCompareRequest
    /\ comparison = NoComparison
    /\ provider = Provider(regional, national)
    /\ datacenter = Datacenter("DC-Low", 0, 0, 45)
    /\ last_call = NoCall
    /\ constructed = NoConstruction
    /\ serialized = NoDict
    /\ client = NewClient
    /\ threads = [th \in ths |-> ThreadAtRest(NothingReturned, FALSE)]

\* One caller at a time, as when the requests are served one after another.
InitClient == ClientStarts({1}, Fetches, ForecastAnswers)

NextClient ==
    \/ ClientCall
    \/ ClientKeyInTimestamps
    \/ ClientReadTimestamp
    \/ ClientCacheGet
    \/ ClientFetchRegional
    \/ ClientFetchNational
    \/ ClientAdjust
    \/ ClientSetCache
    \/ ClientSetTimestamp
    \/ ClientClearCache
    \/ ClientClearTimestamps
    \/ ClientTick

SpecClient == InitClient /\ [][NextClient]_vars

\* Two request threads of the server sharing the module's carbon_client.
ConcurrentFetches == {NoFetch, [ok |-> TRUE, result |-> DefaultCarbonData]}
ConcurrentForecastAnswers ==
    {[kind |-> "ok", national |-> <<150, 90>>], [kind |-> "request_error", national |-> <<>>]}
InitClientConcurrent == ClientStarts({1, 2}, ConcurrentFetches, ConcurrentForecastAnswers)

SpecClientConcurrent == InitClientConcurrent /\ [][NextClient]_vars

\* allocate, release and reset_capacity called in any order.
NextDatacenter ==
    \/ DatacenterAllocate
    \/ DatacenterRelease
    \/ DatacenterResetCapacity

SpecDatacenter == InitDatacenter /\ [][NextDatacenter]_vars

\* ============================================================== properties
\* Shorthands used by the properties below.
LedgerStrategies == {"fcfs", "round_robin", "random", "greedy"}

\* The Schedules returned so far.
Returned == {s \in {schedule, baseline} : s # NoSchedule}

DcPositions == 1..Len(datacenters)

\* The assignments of asgs made to the datacenter with this id.
AssignedTo(asgs, id) == {k \in 1..Len(asgs) : asgs[k].datacenter_id = id}

RECURSIVE SumOver(_, _, _)
\* Sum over the positions ks of asgs of the named field of the workload assigned.
SumOver(ks, asgs, field) ==
    IF ks = {} THEN 0
    ELSE LET k == CHOOSE x \in ks : TRUE
             w == workloads[asgs[k].workload_id]
         IN  (IF field = "cpu" THEN w.cpu ELSE w.memory) + SumOver(ks \ {k}, asgs, field)

WithinCapacity(asgs) ==
    \A d \in DcPositions :
        /\ SumOver(AssignedTo(asgs, datacenters[d].id), asgs, "cpu") <= datacenters[d].total_cpu
        /\ SumOver(AssignedTo(asgs, datacenters[d].id), asgs, "memory") <= datacenters[d].total_memory

\* C1 (as claimed): in the Schedule returned by any of the five strategies, the
\* cpu of the assignments made to one datacenter sums to at most its total_cpu,
\* and their memory to at most its total_memory.
C1_AssignmentsWithinCapacity ==
    \A s \in Returned : WithinCapacity(s.assignments)

\* C1, the part that holds: the four strategies that keep a ledger (fcfs,
\* round_robin, random, greedy) never assign more than a datacenter's capacity.
C1_LedgerStrategiesWithinCapacity ==
    \A s \in Returned : s.algorithm_used \in LedgerStrategies => WithinCapacity(s.assignments)

\* C1: dp_schedule puts two workloads on the same datacenter in the same time
\* slot although together they exceed its cpu.
C1_DpOvercommitsOneSlot ==
    /\ schedule.algorithm_used = "dp"
    /\ \E a, b \in Range(schedule.assignments) :
          /\ a.workload_id # b.workload_id
          /\ a.datacenter_id = b.datacenter_id
          /\ a.start_time = b.start_time
          /\ \E d \in DcPositions :
                /\ datacenters[d].id = a.datacenter_id
                /\ workloads[a.workload_id].cpu + workloads[b.workload_id].cpu
                      > datacenters[d].total_cpu

\* C2: a returned Schedule has at most as many assignments as the batch has
\* workloads, every assignment's workload_id is the id of a workload of the
\* batch, and no workload id is assigned twice.
C2_AssignmentsDrawnOnceFromInput ==
    \A s \in Returned :
        /\ Len(s.assignments) <= Len(workloads)
        /\ \A k \in 1..Len(s.assignments) :
              \E j \in 1..Len(workloads) : workloads[j].id = s.assignments[k].workload_id
        /\ \A k, l \in 1..Len(s.assignments) :
              s.assignments[k].workload_id = s.assignments[l].workload_id => k = l

\* C2 witness: strategies returned a Schedule for a batch of two workloads, one
\* with both placed and one with only one of them placed.
C2_Witness ==
    /\ Len(workloads) = 2
    /\ schedule.algorithm_used = "dp"
    /\ Len(schedule.assignments) = 2
    /\ baseline.algorithm_used = "fcfs"
    /\ Len(baseline.assignments) = 1

\* A step of the run's loop that makes an assignment: the new assignment.
MakesAssignment == Len(assignments') = Len(assignments) + 1
NewAssignment == assignments'[Len(assignments')]

\* The positions of the ledger's datacenters that can accommodate w.
Feasible(w) == {d \in 1..Len(dcs) : CanAccommodate(dcs[d], w.cpu, w.memory)}

HasIntensity(dc) == dc.id \in DOMAIN carbon_data

\* C3: every assignment greedy_schedule makes goes to a datacenter that can
\* accommodate the workload on the ledger as earlier assignments of the run
\* left it, and whose intensity (the rank 999 standing in for a datacenter
\* without carbon entry) is the lowest among the datacenters that can; when
\* all of them have an entry in the carbon map, it is the lowest intensity of
\* the map among them.
C3_GreedyPicksLowestIntensity ==
    [][ (running = "greedy" /\ i <= Len(sorted_workloads) /\ MakesAssignment) =>
           LET w == sorted_workloads[i]
           IN  /\ NewAssignment.workload_id = w.id
               /\ \E d \in Feasible(w) :
                     /\ dcs[d].id = NewAssignment.datacenter_id
                     /\ \A e \in Feasible(w) :
                           GetCarbonIntensity(dcs[d], carbon_data)
                              <= GetCarbonIntensity(dcs[e], carbon_data)
                     /\ (\A e \in Feasible(w) : HasIntensity(dcs[e])) =>
                           \A e \in Feasible(w) :
                              carbon_data[dcs[d].id].intensity <= carbon_data[dcs[e].id].intensity
      ]_vars

\* C3 witness: greedy placed the first workload on DC-Low, second in the list
\* and lowest in intensity, and the second workload on DC-High because DC-Low
\* had no capacity left for it.
C3_Witness ==
    /\ schedule.algorithm_used = "greedy"
    /\ Len(datacenters) = 2
    /\ datacenters[1].id = "DC-High" /\ datacenters[2].id = "DC-Low"
    /\ "DC-Low" \in DOMAIN carbon_data /\ "DC-High" \in DOMAIN carbon_data
    /\ carbon_data["DC-Low"].intensity < carbon_data["DC-High"].intensity
    /\ Len(schedule.assignments) = 2
    /\ schedule.assignments[1].datacenter_id = "DC-Low"
    /\ schedule.assignments[2].datacenter_id = "DC-High"

\* At least two datacenters of the fixture differ in intensity in the carbon map.
TwoIntensitiesDiffer ==
    \E d, e \in DcPositions :
        /\ datacenters[d].id \in DOMAIN carbon_data
        /\ datacenters[e].id \in DOMAIN carbon_data
        /\ carbon_data[datacenters[d].id].intensity # carbon_data[datacenters[e].id].intensity

\* The Schedules of greedy_schedule and of fcfs_schedule on the same fixture.
GreedyAndFcfsReturned == schedule.algorithm_used = "greedy" /\ baseline.algorithm_used = "fcfs"

WholeBatchFitsEverywhere ==
    \A d \in DcPositions :
        /\ datacenters[d].id \in DOMAIN carbon_data
        /\ SumSeq([k \in 1..Len(workloads) |-> workloads[k].cpu]) <= datacenters[d].available_cpu
        /\ SumSeq([k \in 1..Len(workloads) |-> workloads[k].memory]) <= datacenters[d].available_memory

DpReturned == schedule.algorithm_used = "dp"

\* A duration rounded up to whole slots, at least one slot.
SlotsRoundedUp(w) == IF w.duration <= 2 THEN 1 ELSE (w.duration + 1) \div 2

\* The latest slot at which w may start so as to end by its deadline; below 0
\* when no slot will do.
LatestFeasibleStart(w) == ((w.deadline - base_time) \div 2) - SlotsRoundedUp(w)

\* The slot at which an assignment of dp_schedule starts.
StartSlot(a) == (a.start_time - base_time) \div 2

\* The position in the list of the datacenter of an assignment.
DcPosition(a) == CHOOSE d \in DcPositions : datacenters[d].id = a.datacenter_id

\* The order in which dp_schedule processes the batch.
DpOrder == StableSort(workloads, PriorityKeys(workloads))
DpRank(id) == CHOOSE k \in 1..Len(DpOrder) : DpOrder[k].id = id

\* What the pool of slot t at datacenter d has left when w is processed: the
\* capacity less what the assignments of the workloads processed before w
\* committed at that slot and datacenter.
CommittedBefore(w, t, d) ==
    {k \in 1..Len(schedule.assignments) :
        /\ DpRank(schedule.assignments[k].workload_id) < DpRank(w.id)
        /\ StartSlot(schedule.assignments[k]) = t
        /\ schedule.assignments[k].datacenter_id = datacenters[d].id}

PoolAccommodates(w, t, d) ==
    /\ datacenters[d].available_cpu
          - SumOver(CommittedBefore(w, t, d), schedule.assignments, "cpu") >= w.cpu
    /\ datacenters[d].available_memory
          - SumOver(CommittedBefore(w, t, d), schedule.assignments, "memory") >= w.memory

\* The (slot, datacenter) pairs feasible for w: the slot lies in the horizon
\* and in [0, latest feasible start], the workload ends within the horizon,
\* and the pool of the slot at the datacenter accommodates it.
FeasiblePairs(w) ==
    {p \in Slots \X DcPositions :
        /\ p[1] <= LatestFeasibleStart(w)
        /\ p[1] + SlotsRoundedUp(w) <= TimeSlots
        /\ PoolAccommodates(w, p[1], p[2])}

\* Forecast intensity times the energy estimate, for w at pair p.
PairCarbon(w, p) ==
    EnergyKwh(w) * CarbonGet(carbon_forecast, <<datacenters[p[2]].id, p[1]>>).intensity

\* C5 (as claimed): every assignment of dp_schedule starts at a slot in
\* [0, latest feasible start] of its workload, and so ends by its deadline.
C5_DpMeetsDeadlines ==
    DpReturned =>
        \A k \in 1..Len(schedule.assignments) :
            LET a == schedule.assignments[k]
                w == workloads[a.workload_id]
            IN  /\ 0 <= StartSlot(a)
                /\ StartSlot(a) <= LatestFeasibleStart(w)
                /\ a.end_time <= w.deadline

\* Fixtures on which neither deadlines, nor capacity, nor the rounding of
\* durations constrain dp_schedule: every deadline lies beyond the horizon,
\* every duration is a whole number of hours and every datacenter has room
\* for the whole batch at once.
InitUncontended ==
    /\ Init
    /\ \A k \in 1..Len(workloads) :
          /\ workloads[k].deadline >= 2 * TimeSlots + 2
          /\ workloads[k].duration % 2 = 0
    /\ \A d \in DcPositions :
          /\ SumSeq([k \in 1..Len(workloads) |-> workloads[k].cpu]) <= datacenters[d].available_cpu
          /\ SumSeq([k \in 1..Len(workloads) |-> workloads[k].memory]) <= datacenters[d].available_memory

SpecUncontended == InitUncontended /\ [][Next]_vars

\* C6 (as claimed): every assignment of dp_schedule is at the feasible pair of
\* least forecast intensity times energy, the first such pair in ascending
\* slot, then datacenter list order.
C6_DpPicksCheapestFeasiblePair ==
    DpReturned =>
        \A k \in 1..Len(schedule.assignments) :
            LET a == schedule.assignments[k]
                w == workloads[a.workload_id]
                chosen == <<StartSlot(a), DcPosition(a)>>
            IN  /\ chosen \in FeasiblePairs(w)
                /\ \A p \in FeasiblePairs(w) :
                      \/ PairCarbon(w, chosen) < PairCarbon(w, p)
                      \/ (PairCarbon(w, chosen) = PairCarbon(w, p) /\ PairLessEq(chosen, p))

\* C7 (as claimed): dp_schedule schedules every workload of the batch that
\* has a feasible pair, whatever the other workloads of the batch.
C7_DpSchedulesEveryFeasibleWorkload ==
    DpReturned =>
        \A j \in 1..Len(workloads) :
            FeasiblePairs(workloads[j]) # {} =>
                \E k \in 1..Len(schedule.assignments) :
                    schedule.assignments[k].workload_id = workloads[j].id

\* ---- the four strategies that keep a ledger
InLoop == running \in LedgerStrategies /\ i <= Len(sorted_workloads)

\* The ledger holds, for every datacenter, the caller's capacity less the
\* allocations of the assignments made so far by the run.
LedgerReflectsAssignments ==
    /\ Len(dcs) = Len(datacenters)
    /\ \A d \in DcPositions :
          /\ dcs[d].id = datacenters[d].id
          /\ dcs[d].available_cpu = datacenters[d].available_cpu
                - SumOver(AssignedTo(assignments, dcs[d].id), assignments, "cpu")
          /\ dcs[d].available_memory = datacenters[d].available_memory
                - SumOver(AssignedTo(assignments, dcs[d].id), assignments, "memory")

\* sorted_workloads holds every workload of the batch exactly once.
ProcessesBatchOnce ==
    /\ Len(sorted_workloads) = Len(workloads)
    /\ \A j \in 1..Len(workloads) :
          \E k \in 1..Len(sorted_workloads) : sorted_workloads[k] = workloads[j]

\* C8: fcfs, round_robin, random and greedy process every workload of the
\* batch once; when a workload is processed, the ledger holding the
\* allocations of the workloads before it, it gets an assignment if some
\* datacenter can accommodate it and none if no datacenter can; either way
\* the run goes on to the next workload, and it returns the assignments made.
C8_AbsentIffNoDatacenterFits ==
    [][ /\ InLoop =>
            LET w == sorted_workloads[i]
            IN  /\ ProcessesBatchOnce
                /\ LedgerReflectsAssignments
                /\ running' = running /\ i' = i + 1
                /\ IF Feasible(w) # {}
                   THEN /\ MakesAssignment
                        /\ SubSeq(assignments', 1, Len(assignments)) = assignments
                        /\ NewAssignment.workload_id = w.id
                   ELSE assignments' = assignments
        /\ (running \in LedgerStrategies /\ running' = "none") =>
              /\ i > Len(sorted_workloads)
              /\ \E s \in {schedule', baseline'} :
                    s.algorithm_used = running /\ s.assignments = assignments
      ]_vars

\* C8 witness: round_robin_schedule returned a Schedule that lacks the
\* workload processed first and holds the workload processed after it.
C8_Witness ==
    /\ schedule.algorithm_used = "round_robin"
    /\ baseline = NoSchedule
    /\ Len(sorted_workloads) = 2
    /\ Len(schedule.assignments) = 1
    /\ schedule.assignments[1].workload_id = sorted_workloads[2].id

\* C9: every assignment fcfs_schedule makes goes to the first datacenter, in
\* list order, that can accommodate the workload on the ledger as it is when
\* the workload is processed, and none is made only if no datacenter can; the
\* datacenter chosen is the same for every carbon map.
C9_FcfsPicksFirstFit ==
    [][ (running = "fcfs" /\ i <= Len(sorted_workloads)) =>
           LET w == sorted_workloads[i]
           IN  /\ \A carbon \in CarbonMaps :
                     FcfsChoose(dcs, w, carbon) = FcfsChoose(dcs, w, carbon_data)
               /\ IF Feasible(w) = {}
                  THEN assignments' = assignments
                  ELSE /\ MakesAssignment
                       /\ NewAssignment.workload_id = w.id
                       /\ NewAssignment.datacenter_id = dcs[Min(Feasible(w))].id
                       /\ dcs' = [dcs EXCEPT ![Min(Feasible(w))] = Allocate(@, w.cpu, w.memory)]
      ]_vars

\* C9 witness: fcfs placed the first workload on DC-High, first in the list
\* though highest in intensity, and the second workload on DC-Low because
\* DC-High had no capacity left for it.
C9_Witness ==
    /\ schedule.algorithm_used = "fcfs"
    /\ Len(datacenters) = 2
    /\ datacenters[1].id = "DC-High" /\ datacenters[2].id = "DC-Low"
    /\ "DC-Low" \in DOMAIN carbon_data /\ "DC-High" \in DOMAIN carbon_data
    /\ carbon_data["DC-Low"].intensity < carbon_data["DC-High"].intensity
    /\ Len(schedule.assignments) = 2
    /\ schedule.assignments[1].datacenter_id = "DC-High"
    /\ schedule.assignments[2].datacenter_id = "DC-Low"

\* round_robin_schedule has just returned.
RoundRobinReturned ==
    schedule.algorithm_used = "round_robin" /\ baseline = NoSchedule /\ running = "none"

\* C10: when round_robin_schedule has run on D datacenters a batch of N
\* workloads, N a multiple of D, each of which could be accommodated by every
\* datacenter when it was processed, every datacenter has N/D assignments.
C10_RoundRobinSpreadsEvenly ==
    (/\ RoundRobinReturned
     /\ fits_everywhere
     /\ Len(datacenters) > 0
     /\ Len(workloads) % Len(datacenters) = 0) =>
        \A d \in DcPositions :
            Cardinality(AssignedTo(schedule.assignments, datacenters[d].id))
                = Len(workloads) \div Len(datacenters)

\* C10 witness: such a run, of two workloads over two datacenters.
C10_Witness ==
    /\ RoundRobinReturned
    /\ fits_everywhere
    /\ Len(datacenters) = 2
    /\ Len(workloads) = 2
    /\ Len(schedule.assignments) = 2

\* ------------------------------------------------ properties of the service
\* The closed set of strategies: the five of backend/algorithms.
SupportedStrategies == {"fcfs", "round_robin", "random", "greedy", "dp"}

CatalogIds == {catalog[k].id : k \in 1..Len(catalog)}

\* C11 (as claimed): optimize called with an algorithm name outside the closed
\* set runs no strategy in its place and returns no successful result.
C11_UnknownAlgorithmRejected ==
    (phase # "direct" /\ request.algorithm \notin SupportedStrategies) =>
        /\ running = "none"
        /\ schedule = NoSchedule
        /\ ~result.success

\* The entry of the forecast an assignment of dp_schedule was made under, and
\* the entry of the carbon map an assignment of the other strategies was.
ForecastEntry(a) == CarbonGet(carbon_forecast, <<a.datacenter_id, (a.start_time - base_time) \div 2>>)
SnapshotEntry(a) == CarbonGet(result.carbon_data, a.datacenter_id)

\* C12 (as claimed): for each of the five strategy names optimize returns the
\* Schedule of the strategy of that name; the time-windowed strategy has
\* worked from the forecast and every other strategy from the carbon snapshot.
C12_RunsRequestedStrategy ==
    (result.success /\ request.algorithm \in SupportedStrategies) =>
        /\ result.schedule.algorithm_used = request.algorithm
        /\ \A k \in 1..Len(result.schedule.assignments) :
              LET a == result.schedule.assignments[k]
              IN  a.carbon_intensity = IF request.algorithm = "dp"
                                       THEN ForecastEntry(a).intensity
                                       ELSE SnapshotEntry(a).intensity

\* The requested subset is the empty list or names no datacenter of the catalog.
EmptyOrUnfoundSubset ==
    /\ request.datacenter_ids.given
    /\ Range(request.datacenter_ids.ids) \cap CatalogIds = {}

\* C13 (as claimed): optimize called with a datacenter subset that is empty or
\* matches no known datacenter returns no successful result.
C13_EmptyOrUnfoundSubsetRejected ==
    (phase # "direct" /\ EmptyOrUnfoundSubset) => ~result.success

\* C14 (as claimed): every datacenter optimize hands to the strategy and to
\* the baseline has an entry in the carbon snapshot, and so has the datacenter
\* of every assignment returned.
C14_DatacentersHaveCarbonEntry ==
    /\ phase \in {"strategy", "baseline"} =>
          \A d \in DcPositions : datacenters[d].id \in DOMAIN carbon_data
    /\ result.success =>
          \A s \in {result.schedule, result.baseline} :
              \A k \in 1..Len(s.assignments) :
                  s.assignments[k].datacenter_id \in DOMAIN result.carbon_data

\* ---- frame properties of the strategies
\* The workload-to-datacenter mapping of a Schedule.
Mapping(s) == [k \in 1..Len(s.assignments) |->
                  <<s.assignments[k].workload_id, s.assignments[k].datacenter_id>>]

\* The same deterministic strategy was run twice on the caller's list.
RanTwice ==
    /\ phase = "direct"
    /\ baseline # NoSchedule
    /\ baseline.algorithm_used = schedule.algorithm_used
    /\ schedule.algorithm_used # "random"

\* C15: no step of any strategy changes the caller's Datacenter objects, and
\* a deterministic strategy run twice on the same caller-owned list gives the
\* same workload-to-datacenter mapping both times.
C15_CallerDatacentersUntouched ==
    /\ [][datacenters' = datacenters]_vars
    /\ [](RanTwice => Mapping(baseline) = Mapping(schedule))

\* The cpu the assignments of a Schedule take at the datacenter with this id.
CpuAt(s, id) == SumOver(AssignedTo(s.assignments, id), s.assignments, "cpu")

\* C15 witness: a strategy was run twice and placed, both times, workloads on
\* a datacenter that has not the cpu for both runs together.
C15_Witness ==
    /\ RanTwice
    /\ \E d \in DcPositions :
          /\ CpuAt(schedule, datacenters[d].id) > 0
          /\ 2 * CpuAt(schedule, datacenters[d].id) > datacenters[d].total_cpu
          /\ datacenters[d].available_cpu = datacenters[d].total_cpu

\* fcfs_schedule run alone: the assignments it makes for the workloads todo,
\* in this order, on this ledger.
RECURSIVE FcfsAlone(_, _, _)
FcfsAlone(todo, ledger, carbon) ==
    IF todo = <<>> THEN <<>>
    ELSE LET w == Head(todo)
             d == FcfsChoose(ledger, w, carbon)
         IN  IF d = 0 THEN FcfsAlone(Tail(todo), ledger, carbon)
             ELSE <<Assignment(w, ledger[d], w.arrival_time, CarbonGet(carbon, ledger[d].id))>>
                  \o FcfsAlone(Tail(todo),
                               [ledger EXCEPT ![d] = Allocate(@, w.cpu, w.memory)], carbon)

\* Full-capacity copies of the datacenters of the catalog with these ids, in
\* catalog order.
FullCopies(ids) ==
    LET picked == SelectDatacenters(catalog, Range(ids))
    IN  [k \in 1..Len(picked) |->
            Datacenter(picked[k].id, picked[k].total_cpu, picked[k].total_memory,
                       picked[k].cost_per_core_hour)]

\* C16: the baseline optimize returns is the Schedule fcfs_schedule makes
\* alone on full-capacity copies of the datacenters handed to the strategy,
\* with the same snapshot, whatever the strategy was and allocated; and the
\* strategy's Schedule does not change while the baseline is run.
C16_BaselineIndependentOfStrategy ==
    /\ [](result.success =>
            result.baseline.assignments =
                FcfsAlone(StableSort(workloads, ArrivalKeys(workloads)),
                          FullCopies(result.datacenters_used), result.carbon_data))
    /\ [][phase = "baseline" => schedule' = schedule]_vars

\* C16 witness: optimize returned a Schedule and a baseline that both placed
\* workloads on one datacenter, which has not the cpu for the two together.
C16_Witness ==
    /\ result.success
    /\ \E d \in 1..Len(catalog) :
          /\ CpuAt(result.schedule, catalog[d].id) > 0
          /\ CpuAt(result.baseline, catalog[d].id) > 0
          /\ CpuAt(result.schedule, catalog[d].id) + CpuAt(result.baseline, catalog[d].id)
                > catalog[d].total_cpu

\* ---- the shared service
\* Every datacenter of the list has its whole capacity available.
AllFull(list) ==
    \A d \in 1..Len(list) :
        /\ list[d].available_cpu = list[d].total_cpu
        /\ list[d].available_memory = list[d].total_memory

\* The ledger holds, for every datacenter, its total capacity less what the
\* assignments asgs of the run that owns the ledger took there, and nothing
\* any other run took.
OwnLedger(ledger, asgs) ==
    \A d \in 1..Len(ledger) :
        /\ ledger[d].available_cpu = ledger[d].total_cpu
              - SumOver(AssignedTo(asgs, ledger[d].id), asgs, "cpu")
        /\ ledger[d].available_memory = ledger[d].total_memory
              - SumOver(AssignedTo(asgs, ledger[d].id), asgs, "memory")

\* C17: under any interleaving of optimize and compare_algorithms calls on the
\* shared service, the catalog keeps its capacity counters; every strategy
\* run starts on datacenters at full capacity; and the ledger of a run shows
\* its own allocations only, whatever the other call has allocated meanwhile.
C17_RunsShareNoCapacity ==
    /\ catalog = DEFAULT_DATACENTERS /\ AllFull(catalog)
    /\ phase \in {"strategy", "baseline"} =>
          /\ AllFull(datacenters)
          /\ running \in LedgerStrategies => OwnLedger(dcs, assignments)
    /\ compare.phase = "run" =>
          /\ AllFull(compare.dcs)
          /\ IF compare.name \in LedgerStrategies
             THEN OwnLedger(compare.ledger, compare.assignments)
             ELSE AllFull(compare.ledger)

\* C17 witness: a strategy run of optimize and a strategy run of
\* compare_algorithms are both under way, and both have placed workloads on
\* one datacenter that has not the cpu for the two together.
C17_Witness ==
    /\ running \in LedgerStrategies /\ compare.phase = "run"
    /\ \E d \in 1..Len(catalog) :
          LET mine == SumOver(AssignedTo(assignments, catalog[d].id), assignments, "cpu")
              theirs == SumOver(AssignedTo(compare.assignments, catalog[d].id),
                                compare.assignments, "cpu")
          IN  mine > 0 /\ theirs > 0 /\ mine + theirs > catalog[d].total_cpu

\* ---- the Datacenter object
\* C18: after any sequence of allocate, release and reset_capacity calls with
\* non-negative amounts on a Datacenter constructed with available = total,
\* 0 <= available_cpu <= total_cpu and 0 <= available_memory <= total_memory.
C18_AvailableWithinTotals ==
    phase = "object" =>
        /\ 0 <= datacenter.available_cpu /\ datacenter.available_cpu <= datacenter.total_cpu
        /\ 0 <= datacenter.available_memory
        /\ datacenter.available_memory <= datacenter.total_memory

\* C18 witness: a release of more cpu than the datacenter has in total, after
\* which memory is still partly allocated.
C18_Witness ==
    /\ last_call.op = "release"
    /\ datacenter.total_cpu > 0 /\ last_call.cpu > datacenter.total_cpu
    /\ datacenter.available_memory < datacenter.total_memory

\* C19: allocate(cpu, memory) returns True and takes cpu and memory off the
\* two counters when both suffice; otherwise it returns False and leaves both
\* counters as they were.
C19_AllocateAllOrNothing ==
    [][ (phase = "object" /\ last_call'.op = "allocate") =>
           LET c == last_call'
           IN  IF datacenter.available_cpu >= c.cpu /\ datacenter.available_memory >= c.memory
               THEN /\ c.returned
                    /\ datacenter'.available_cpu = datacenter.available_cpu - c.cpu
                    /\ datacenter'.available_memory = datacenter.available_memory - c.memory
               ELSE /\ ~c.returned
                    /\ datacenter'.available_cpu = datacenter.available_cpu
                    /\ datacenter'.available_memory = datacenter.available_memory
      ]_vars

\* C19 witness: an allocate that returned False for want of memory although
\* the cpu asked for was there, on a datacenter partly allocated.
C19_Witness ==
    /\ last_call.op = "allocate" /\ ~last_call.returned
    /\ last_call.cpu > 0 /\ last_call.cpu <= datacenter.available_cpu
    /\ last_call.memory > datacenter.available_memory
    /\ datacenter.available_cpu < datacenter.total_cpu

\* ---- a workload too large for every datacenter
\* The cpu of w exceeds the available cpu of every datacenter passed in.
ExceedsEveryDatacenter(w) == \A d \in DcPositions : w.cpu > datacenters[d].available_cpu

\* C20: a workload whose cpu exceeds the available cpu of every datacenter is
\* in the assignments of no strategy's Schedule, and a run with such a workload
\* in its batch always has a next step (no strategy stops on it).
C20_OversizedWorkloadNeverAssigned ==
    phase = "direct" =>
        \A k \in 1..Len(workloads) :
            ExceedsEveryDatacenter(workloads[k]) =>
                /\ \A s \in Returned : \A j \in 1..Len(s.assignments) : s.assignments[j].workload_id # workloads[k].id
                /\ running # "none" => ENABLED Next

\* C20 witness: a Schedule returned for a batch of two with the other workload
\* placed and the oversized one left out.
C20_Witness ==
    /\ phase = "direct"
    /\ Len(workloads) = 2 /\ Len(datacenters) > 0
    /\ ExceedsEveryDatacenter(workloads[1])
    /\ schedule # NoSchedule
    /\ Len(schedule.assignments) = 1
    /\ schedule.assignments[1].workload_id = workloads[2].id

\* ---- what an assignment records
\* The Schedules returned so far by fcfs, round_robin, random or greedy.
ReturnedByLedgerStrategy == {s \in Returned : s.algorithm_used \in LedgerStrategies}

\* The datacenter of the caller's list with this id.
DatacenterWithId(id) == datacenters[CHOOSE d \in DcPositions : datacenters[d].id = id]

\* C21: every assignment of fcfs, round_robin, random and greedy records
\* carbon_emissions = cpu * 0.1 * duration * the carbon intensity it records
\* for its datacenter, cost = cpu * duration * the datacenter's
\* cost_per_core_hour, start_time = the workload's arrival_time and
\* end_time = start_time + duration.
C21_AssignmentRecordsEnergyTimesIntensity ==
    phase = "direct" =>
        \A s \in ReturnedByLedgerStrategy : \A k \in 1..Len(s.assignments) :
            LET a == s.assignments[k]
                w == workloads[a.workload_id]
            IN  /\ a.carbon_intensity = CarbonGet(carbon_data, a.datacenter_id).intensity
                /\ a.carbon_emissions = w.cpu * w.duration * a.carbon_intensity
                /\ a.cost = w.cpu * w.duration * DatacenterWithId(a.datacenter_id).cost_per_core_hour
                /\ a.start_time = w.arrival_time
                /\ a.end_time = a.start_time + w.duration

\* C21 witness: greedy placed a workload of 2 cpu and 2 h, arriving later than
\* time 0 or not, on the datacenter of intensity 100: 0.4 kWh * 100 = 40 gCO2
\* (800 twentieths), and another workload arriving at time 1 beside it.
C21_Witness ==
    /\ phase = "direct" /\ schedule.algorithm_used = "greedy"
    /\ \E k \in 1..Len(schedule.assignments) :
          LET a == schedule.assignments[k]
              w == workloads[a.workload_id]
          IN  /\ w.cpu = 2 /\ w.duration = 4
              /\ a.datacenter_id = "DC-Low" /\ a.carbon_intensity = 100
              /\ a.carbon_emissions = 800
    /\ \E k \in 1..Len(schedule.assignments) : schedule.assignments[k].start_time = 1

\* ---- a datacenter without carbon signal
\* The assignment's datacenter (for dp_schedule, its datacenter and start
\* slot) has no entry in the carbon signal the strategy of Schedule s was given.
LacksCarbonEntry(s, a) ==
    IF s.algorithm_used = "dp"
    THEN <<a.datacenter_id, StartSlot(a)>> \notin DOMAIN carbon_forecast
    ELSE a.datacenter_id \notin DOMAIN carbon_data

\* C22: for every strategy, an assignment to a datacenter that has no entry in
\* the carbon signal records carbon_intensity 200, renewable_percentage 30 and
\* carbon_emissions = energy * 200, and the run goes on to its return.
C22_MissingEntryRecordsDefault ==
    phase = "direct" =>
        /\ \A s \in Returned : \A k \in 1..Len(s.assignments) :
              LET a == s.assignments[k]
                  w == workloads[a.workload_id]
              IN  LacksCarbonEntry(s, a) =>
                      /\ a.carbon_intensity = 200
                      /\ a.renewable_percentage = 30
                      /\ a.carbon_emissions = w.cpu * w.duration * 200
        /\ running # "none" => ENABLED Next

\* C22 witness: dp_schedule placed a workload at a datacenter and slot absent
\* from its forecast, and the fcfs run after it placed one on a datacenter
\* absent from the carbon map although the map has other entries.
C22_Witness ==
    /\ phase = "direct"
    /\ schedule.algorithm_used = "dp" /\ baseline.algorithm_used = "fcfs"
    /\ DOMAIN carbon_forecast # {} /\ DOMAIN carbon_data # {}
    /\ \E k \in 1..Len(schedule.assignments) :
          LacksCarbonEntry(schedule, schedule.assignments[k])
    /\ \E k \in 1..Len(baseline.assignments) :
          LacksCarbonEntry(baseline, baseline.assignments[k])

\* ---- the provider failing
\* C23 (as claimed): whatever the provider answers, get_current_intensity and
\* get_forecast return a map, so that no optimize call and no
\* compare_algorithms call ends with an exception raised in them.
C23_ProviderNeverFailsACall ==
    /\ phase # "raised"
    /\ comparison.error # "get_forecast"

\* ---- the comparison of strategies
\* The names compare_algorithms was asked to compare.
RequestedForComparison ==
    IF compare_request.algorithms.given THEN compare_request.algorithms.names
    ELSE <<"greedy", "dp", "fcfs">>

\* C24 (as claimed): compare_algorithms returns an entry for every requested
\* strategy of the closed set, skipping none, and for a non-empty list of
\* requested strategies it does not fail for want of a best algorithm.
C24_EveryRequestedStrategyReported ==
    /\ comparison.outcome = "returned" =>
          \A k \in 1..Len(RequestedForComparison) :
              RequestedForComparison[k] \in SupportedStrategies =>
                  RequestedForComparison[k] \in DOMAIN comparison.results
    /\ comparison.error = "min" => RequestedForComparison = <<>>

\* C24, the part that holds: every requested name that ALGORITHMS holds has
\* an entry in the results returned.
C24_RegisteredStrategiesReported ==
    comparison.outcome = "returned" =>
        \A k \in 1..Len(RequestedForComparison) :
            RequestedForComparison[k] \in DOMAIN ALGORITHMS =>
                RequestedForComparison[k] \in DOMAIN comparison.results

\* The total_carbon reported for a strategy is that of the assignments
\* reported for it.
ReportedTotalsAreSums ==
    \A name \in DOMAIN comparison.results :
        comparison.results[name].total_carbon =
            Round2(SumSeq([k \in 1..Len(comparison.results[name].assignments) |->
                              comparison.results[name].assignments[k].carbon_emissions]))

\* C25: the best_algorithm compare_algorithms reports is one of the reported
\* strategies, and no reported strategy has a lower reported total_carbon.
C25_BestAlgorithmHasLeastCarbon ==
    comparison.outcome = "returned" =>
        /\ comparison.best_algorithm \in DOMAIN comparison.results
        /\ ReportedTotalsAreSums
        /\ \A name \in DOMAIN comparison.results :
              comparison.results[comparison.best_algorithm].total_carbon
                  <= comparison.results[name].total_carbon

\* C25 witness: three strategies reported with three different totals, the
\* best of them neither the first nor the last that was run.
C25_Witness ==
    /\ comparison.outcome = "returned"
    /\ Len(comparison.keys) = 3
    /\ comparison.best_algorithm = comparison.keys[2]
    /\ \A j, k \in 1..3 :
          j # k => comparison.results[comparison.keys[j]].total_carbon
                      # comparison.results[comparison.keys[k]].total_carbon

\* ---------------------------------------------------------------------- C26
\* C26: MetricsCalculator never divides by zero.  Whatever pair of schedules
\* calculate_all_metrics is called with, empty ones included, it returns
\* without raising; percent_reduction is 0 when the baseline's total carbon
\* is 0, carbon_per_task and cost_per_task are 0 when the optimized schedule
\* has no assignments, and cost_per_carbon is 0 when its total carbon is 0.
C26_MetricsNeverDivideByZero ==
    (phase = "metrics" /\ result.success) =>
        /\ ~result.metrics.raised
        /\ TotalCarbon(baseline) = 0 => result.metrics.carbon.percent_reduction = 0
        /\ schedule.assignments = <<>> =>
              /\ result.metrics.carbon.carbon_per_task = 0
              /\ result.metrics.cost.cost_per_task = 0
        /\ TotalCarbon(schedule) = 0 => result.metrics.cost.cost_per_carbon = 0

\* Metrics returned for an optimized schedule that has assignments and no
\* carbon, against an empty baseline.
C26_Witness ==
    /\ phase = "metrics" /\ result.success
    /\ ~result.metrics.raised
    /\ schedule.assignments # <<>> /\ TotalCarbon(schedule) = 0
    /\ baseline.assignments = <<>>
    /\ result.metrics.cost.cost_per_task > 0

\* ---------------------------------------------------------------------- C27
\* x lies in the interval (low, high].
InLeftOpen(x, low, high) == ~x.nan /\ low < x.value /\ x.value <= high

\* x lies in the interval [low, high].
InClosed(x, low, high) == ~x.nan /\ low <= x.value /\ x.value <= high

\* cpu in (0, 64], memory in (0, 256], duration in (0, 168] h, priority in
\* [1, 10].
WithinDocumentedBounds(args) ==
    /\ InLeftOpen(args.cpu, 0, 64)
    /\ InLeftOpen(args.memory, 0, 256)
    /\ InLeftOpen(args.duration, 0, 2 * 168)
    /\ InClosed(args.priority, 1, 10)

\* C27: constructing a Workload with cpu outside (0, 64], memory outside
\* (0, 256], duration outside (0, 168] or priority outside [1, 10] fails with
\* a validation error and produces no Workload, every combination inside the
\* bounds is accepted, and a failed construction has derived no default for
\* arrival_time or deadline.
C27_OutOfBoundsNeverConstructed ==
    (phase = "workload" /\ constructed.outcome # "called") =>
        /\ constructed.outcome = "constructed" <=> WithinDocumentedBounds(constructed.args)
        /\ constructed.outcome = "ValueError" => constructed.object = constructed.args

\* The same for arguments that are numbers.
OrdinaryNumbersValidated ==
    (/\ phase = "workload" /\ constructed.outcome # "called"
     /\ \A f \in {"cpu", "memory", "duration", "priority"} : ~constructed.args[f].nan) =>
        /\ constructed.outcome = "constructed" <=> WithinDocumentedBounds(constructed.args)
        /\ constructed.outcome = "ValueError" => constructed.object = constructed.args

\* ---------------------------------------------------------------------- C28
Abs(x) == IF x < 0 THEN -x ELSE x

\* The sum of the serialized per-assignment values of a field.
SerializedSum(d, f) == SumSeq([k \in 1..Len(d.assignments) |-> d.assignments[k][f]])

\* C28: a Schedule rebuilt from the assignments Schedule.to_dict serialized
\* has the assignment count of the summary, and the sums of its serialized
\* carbon_emissions and cost agree with the summary's total_carbon and
\* total_cost within the tolerance of rounding to 2 decimals (0.01), for any
\* number of assignments.
C28_SerializedSumsAgreeWithSummary ==
    (phase = "serialize" /\ serialized # NoDict) =>
        /\ Len(serialized.assignments) = serialized.summary.tasks_scheduled
        /\ Len(serialized.assignments) = Len(schedule.assignments)
        /\ Abs(SerializedSum(serialized, "carbon_emissions")
               - serialized.summary.total_carbon) <= 1
        /\ Abs(SerializedSum(serialized, "cost") - serialized.summary.total_cost) <= 1

\* ---------------------------------------------------------------------- C29
\* The number of datacenters the scan of an iteration of round_robin_schedule
\* examined, read off the cursor before and after it: those passed over, and
\* the one that took the workload if one did.
RoundRobinExamined ==
    (dc_index' - dc_index - 1) + (Len(assignments') - Len(assignments))

\* C29: in round_robin_schedule the scan for each successive workload starts
\* exactly one position (modulo the number of datacenters) after the position
\* at which the scan for the previous workload started, whether that workload
\* was placed at the cursor, placed after datacenters without capacity were
\* passed over, or not placed; and each scan examines at most D datacenters.
C29_ScanStartsOneAfterPreviousStart ==
    [][ (running = "round_robin" /\ i' = i + 1 /\ Len(dcs) > 0) =>
           /\ dc_index' % Len(dcs) = (dc_index + 1) % Len(dcs)
           /\ RoundRobinExamined <= Len(dcs) ]_vars

\* What the loop does: the next scan starts one position after the
\* datacenter that took the workload, and one position after the previous
\* start when the workload was not placed.
ScanStartsOneAfterLastExamined ==
    [][ (running = "round_robin" /\ i' = i + 1 /\ Len(dcs) > 0) =>
           /\ RoundRobinExamined <= Len(dcs)
           /\ IF Len(assignments') > Len(assignments)
              THEN \E d \in 1..Len(dcs) :
                      /\ dcs[d].id = assignments'[Len(assignments')].datacenter_id
                      /\ dc_index' % Len(dcs) = d % Len(dcs)
              ELSE dc_index' % Len(dcs) = (dc_index + 1) % Len(dcs) ]_vars

\* ---------------------------------------------------------------------- C30
\* C30: in greedy_schedule a datacenter without an intensity in the carbon
\* map is chosen for a workload only when no datacenter with a known
\* intensity can accommodate that workload, whatever the known intensities
\* are.
C30_UnknownIntensityChosenLast ==
    [][ (running = "greedy" /\ i' = i + 1 /\ Len(assignments') > Len(assignments)) =>
           LET w == sorted_workloads[i]
               chosen == assignments'[Len(assignments')].datacenter_id
           IN  chosen \notin DOMAIN carbon_data =>
                  \A d \in 1..Len(dcs) :
                      dcs[d].id \in DOMAIN carbon_data =>
                          ~CanAccommodate(dcs[d], w.cpu, w.memory) ]_vars

\* The same for known intensities below the 999 the sort gives a datacenter
\* without entry.
UnknownIntensityAfterThoseBelowSentinel ==
    [][ (running = "greedy" /\ i' = i + 1 /\ Len(assignments') > Len(assignments)) =>
           LET w == sorted_workloads[i]
               chosen == assignments'[Len(assignments')].datacenter_id
           IN  chosen \notin DOMAIN carbon_data =>
                  \A d \in 1..Len(dcs) :
                      (dcs[d].id \in DOMAIN carbon_data
                       /\ carbon_data[dcs[d].id].intensity < 999) =>
                          ~CanAccommodate(dcs[d], w.cpu, w.memory) ]_vars

\* ---------------------------------------------------------------------- C31
\* The workloads of a list of assignments, in the order of the list.
WorkloadsAssigned(asgs) == [k \in 1..Len(asgs) |-> workloads[asgs[k].workload_id]]

\* Earliest deadline first, ties broken by higher priority first.
DeadlineKeys(ws) == [k \in 1..Len(ws) |-> <<ws[k].deadline, 0 - ws[k].priority>>]

\* The keys of a list never decrease along it.
Ascending(keys) ==
    \A k \in 1..Len(keys) : \A l \in 1..Len(keys) : k < l => KeyLessEq(keys[k], keys[l])

\* C31: dp_schedule processes the workloads earliest deadline first, ties
\* broken by higher priority first, and the assignments of the Schedule it
\* returns follow that order.
C31_DpEarliestDeadlineFirst ==
    /\ running = "dp" => Ascending(DeadlineKeys(sorted_workloads))
    /\ DpReturned => Ascending(DeadlineKeys(WorkloadsAssigned(schedule.assignments)))

\* What the sort does: priority descending, then arrival time.
DpProcessesByPriority ==
    /\ running = "dp" => Ascending(PriorityKeys(sorted_workloads))
    /\ DpReturned => Ascending(PriorityKeys(WorkloadsAssigned(schedule.assignments)))

\* ---------------------------------------------------------------------- C32
\* C32: dp_schedule rounds a duration up to whole slots (at least one), so
\* that every assignment, starting at slot t and lasting d hours, has
\* t + d <= time_slots: no scheduled workload runs past the horizon.
C32_DpEndsWithinHorizon ==
    DpReturned =>
        \A k \in 1..Len(schedule.assignments) :
            LET a == schedule.assignments[k]
                w == workloads[a.workload_id]
            IN  /\ 2 * StartSlot(a) + w.duration <= 2 * TimeSlots
                /\ StartSlot(a) + SlotsRoundedUp(w) <= TimeSlots

\* What the truncation gives: the whole hours of the duration fit.
DpWholeHoursWithinHorizon ==
    DpReturned =>
        \A k \in 1..Len(schedule.assignments) :
            LET a == schedule.assignments[k]
            IN  StartSlot(a) + DurationSlots(workloads[a.workload_id]) <= TimeSlots

\* ---------------------------------------------------------------------- C33
\* C33: the Schedule dp_schedule returns for a batch of n >= 1 workloads has
\* an assignment for every one of the n workloads or no assignment at all.
C33_DpAllOrNothing ==
    (DpReturned /\ Len(workloads) >= 1) =>
        \/ schedule.assignments = <<>>
        \/ /\ Len(schedule.assignments) = Len(workloads)
           /\ \A j \in 1..Len(workloads) :
                 \E k \in 1..Len(schedule.assignments) :
                     schedule.assignments[k].workload_id = workloads[j].id

\* An empty Schedule for a batch of two, one of which some datacenter could
\* have taken within the horizon.
C33_Witness ==
    /\ DpReturned /\ running = "none"
    /\ Len(workloads) = 2
    /\ schedule.assignments = <<>>
    /\ \E j \in 1..2 : \E d \in DcPositions :
          /\ CanAccommodate(datacenters[d], workloads[j].cpu, workloads[j].memory)
          /\ DurationSlots(workloads[j]) <= TimeSlots

\* ---------------------------------------------------------------------- C34
\* C34: in the Schedule dp_schedule returns, the assignments are in
\* processing order (priority descending, then arrival time) and their start
\* slots never decrease along it.
C34_DpStartSlotsNeverDecrease ==
    DpReturned =>
        /\ Ascending(PriorityKeys(WorkloadsAssigned(schedule.assignments)))
        /\ \A k \in 1..Len(schedule.assignments) : \A l \in 1..Len(schedule.assignments) :
              k < l => StartSlot(schedule.assignments[k]) <= StartSlot(schedule.assignments[l])

\* A Schedule of two assignments that start at different slots.
C34_Witness ==
    /\ DpReturned /\ running = "none"
    /\ Len(schedule.assignments) = 2
    /\ StartSlot(schedule.assignments[1]) < StartSlot(schedule.assignments[2])

\* ---------------------------------------------------------------------- C35
\* Arrival time ascending, ties in input order (a workload's id is its
\* position in the batch).
InputOrderKeys(ws) == [k \in 1..Len(ws) |-> <<ws[k].arrival_time, ws[k].id>>]

\* C35: fcfs, round_robin, random and greedy process the workloads in
\* ascending arrival_time, those of equal arrival_time in input order, and
\* the assignments of the Schedule they return are in that order.
C35_ArrivalOrderTiesByInput ==
    /\ running \in LedgerStrategies =>
          /\ Ascending(InputOrderKeys(sorted_workloads))
          /\ Ascending(InputOrderKeys(WorkloadsAssigned(assignments)))
    /\ (schedule # NoSchedule /\ schedule.algorithm_used \in LedgerStrategies) =>
          Ascending(InputOrderKeys(WorkloadsAssigned(schedule.assignments)))

\* A Schedule of two assignments for workloads of equal arrival time.
C35_Witness ==
    /\ schedule # NoSchedule /\ schedule.algorithm_used \in LedgerStrategies
    /\ Len(schedule.assignments) = 2
    /\ workloads[1].arrival_time = workloads[2].arrival_time

\* The entry under key was stored less than cache_ttl ago.
InWindow(key) ==
    /\ key \in DOMAIN client.timestamps
    /\ key \in DOMAIN client.cache
    /\ client.clock - client.timestamps[key] < CacheTtl

\* The maps a successful fetch of the regional endpoint stores.
FetchedMaps == {GetCurrentIntensity(fetch) : fetch \in {f \in provider.regional : f.ok}}

\* What the cache holds under 'current_all' was stored by a successful fetch,
\* and is not the default data.
CacheHoldsFetchedOnly ==
    "current_all" \in DOMAIN client.cache =>
        /\ client.cache["current_all"] \in FetchedMaps
        /\ client.cache["current_all"] # DefaultCarbonData

\* The calls of get_current_intensity that are about to contact the provider.
AboutToContact == {th \in DOMAIN threads : /\ threads[th].op = "current"
                                           /\ threads[th].pc = "fetch"}

\* C36: the cache holds only what a successful fetch stored, never the
\* default data, and while the entry stored under 'current_all' is less than
\* cache_ttl old, get_current_intensity does not go on to contact the
\* provider: it contacts it only at or after expiry.
C36_CacheServedWithinTtl ==
    /\ CacheHoldsFetchedOnly
    /\ AboutToContact # {} => ~InWindow("current_all")

\* The same for the stored maps that have an entry: an empty map stored by a
\* successful fetch is the one the cache never serves.
NonEmptyCacheServedWithinTtl ==
    /\ CacheHoldsFetchedOnly
    /\ AboutToContact # {} =>
          \/ ~InWindow("current_all")
          \/ DOMAIN client.cache["current_all"] = {}

\* A map with entries, cached less than cache_ttl ago, is returned by
\* get_current_intensity without contacting the provider, after time passed.
CachedMapServed ==
    \E th \in DOMAIN threads :
        /\ threads[th].returned.kind = "map"
        /\ threads[th].returned.from_cache
        /\ ~threads[th].contacted
        /\ threads[th].returned.value \in FetchedMaps
        /\ InWindow("current_all")
        /\ client.clock > client.timestamps["current_all"]

\* C37: whatever the interleaving of the threads' calls, a get call that has
\* returned did not end in the KeyError of a timestamp that a concurrent
\* clear_cache removed between the two steps of _is_cache_valid, and the map
\* it returned is a whole one, with its entries.
C37_GetCallsReturnMapsUnderInterleaving ==
    \A th \in DOMAIN threads :
        /\ threads[th].returned.kind # "KeyError"
        /\ threads[th].returned.kind = "map" => DOMAIN threads[th].returned.value # {}

\* What a thread finds in the cache is a map some call stored whole: an entry
\* is never served half written, and a call that does not raise returns a map.
GetCallsReturnWholeMaps ==
    \A th \in DOMAIN threads :
        /\ threads[th].returned.kind \in {"none", "cleared", "map", "KeyError"}
        /\ threads[th].returned.kind = "map" => DOMAIN threads[th].returned.value # {}

\* A get call and a clear_cache call in flight together.
GetBesideClear ==
    \E th, other \in DOMAIN threads :
        /\ threads[th].pc = "valid_read"
        /\ threads[other].pc = "clear_timestamps"

\* No get call ends in KeyError (true of the calls made one after another).
NoKeyError == \A th \in DOMAIN threads : threads[th].returned.kind # "KeyError"

\* The get_current_intensity calls that hold the map of a successful fetch,
\* on their way to return it.
HoldFetchedMap == {th \in DOMAIN threads : /\ threads[th].key = "current_all"
                                           /\ threads[th].pc \in {"set_cache", "set_timestamp"}}

\* C38: every intensity in a map get_current_intensity returned is at least
\* MIN_CARBON_THRESHOLD, and the map of a successful fetch is the fetched
\* datacenters at or above the threshold when there are 3 of them or more,
\* and otherwise all fetched datacenters, each at the higher of its
\* intensity and the threshold.
C38_ReturnedIntensitiesAtLeastThreshold ==
    /\ \A th \in DOMAIN threads :
          threads[th].returned.op = "current" /\ threads[th].returned.kind = "map" =>
              \A id \in DOMAIN threads[th].returned.value :
                  threads[th].returned.value[id].intensity >= MIN_CARBON_THRESHOLD
    /\ \A th \in HoldFetchedMap :
          LET fetched == threads[th].response
              data == threads[th].data
              remain == {id \in DOMAIN fetched : ~(fetched[id].intensity < MIN_CARBON_THRESHOLD)}
          IN  IF Cardinality(remain) < 3
              THEN /\ DOMAIN data = DOMAIN fetched
                   /\ \A id \in DOMAIN fetched :
                         /\ data[id].intensity = Max(fetched[id].intensity, MIN_CARBON_THRESHOLD)
                         /\ data[id].renewable = fetched[id].renewable
              ELSE /\ DOMAIN data = remain
                   /\ \A id \in remain : data[id] = fetched[id]

\* A returned map of four datacenters, three of them raised to the threshold
\* because only one was fetched at or above it.
C38_Witness ==
    \E th \in DOMAIN threads :
        /\ threads[th].returned.op = "current"
        /\ threads[th].returned.kind = "map"
        /\ Cardinality(DOMAIN threads[th].returned.value) = 4
        /\ Cardinality({id \in DOMAIN threads[th].returned.value :
                           threads[th].returned.value[id].intensity = MIN_CARBON_THRESHOLD}) = 3

\* The ids of the datacenters that _get_fresh_datacenters supplies to the
\* strategies for this request and this carbon snapshot.
IdsSupplied(datacenter_ids, carbon) == Range(Ids(GetFreshDatacenters(catalog, datacenter_ids, carbon)))

\* The datacenter ids in the assignments of a Schedule.
IdsAssigned(s) == {s.assignments[k].datacenter_id : k \in 1..Len(s.assignments)}

\* C39: what compare_algorithms returns as datacenters_used is the ids of the
\* datacenters supplied to the strategies (the requested subset, restricted
\* to the catalog and to the carbon snapshot), and every assignment's
\* datacenter_id in the results is one of them.
C39_CompareDatacentersUsedAreThoseSupplied ==
    comparison.outcome = "returned" =>
        /\ comparison.datacenters_used
              = IdsSupplied(compare_request.datacenter_ids, comparison.carbon_data)
        /\ \A name \in Range(comparison.keys) :
              IdsAssigned(comparison.results[name]) \subseteq comparison.datacenters_used

\* The same for optimize, whose datacenters_used is built from the
\* datacenters it supplied.
OptimizeDatacentersUsedAreThoseSupplied ==
    result.success =>
        /\ Range(result.datacenters_used)
              = IdsSupplied(request.datacenter_ids, result.carbon_data)
        /\ IdsAssigned(result.schedule) \subseteq Range(result.datacenters_used)
        /\ IdsAssigned(result.baseline) \subseteq Range(result.datacenters_used)

\* compare_algorithms returned with every catalog datacenter in the carbon
\* snapshot and none requested in particular: there datacenters_used is the
\* list supplied.
CompareDatacentersUsedWhenAllSupplied ==
    LET all_supplied ==
            /\ ~(compare_request.datacenter_ids.given /\ compare_request.datacenter_ids.ids # <<>>)
            /\ DOMAIN comparison.carbon_data # {}
            /\ DOMAIN comparison.carbon_data \subseteq Range(Ids(catalog))
    IN  comparison.outcome = "returned" /\ all_supplied =>
            /\ comparison.datacenters_used
                  = IdsSupplied(compare_request.datacenter_ids, comparison.carbon_data)
            /\ \A name \in Range(comparison.keys) :
                  IdsAssigned(comparison.results[name]) \subseteq comparison.datacenters_used
====
